---- MODULE Spec2Model ----
(***************************************************************************)
(* Verification model of tono-bot (src/tono-bot/src).                      *)
(*                                                                         *)
(* Spec      : the webhook / process_single_event pipeline of main.py      *)
(*             (dedup gate, handoff detector, silence, turn, session       *)
(*             store, reply send, lead emission).                          *)
(*                                                                         *)
(* main.py awaits store.get / store.upsert and runs every webhook call as  *)
(* its own asyncio task, so each await is a point where another task may   *)
(* run; code between two awaits is one atomic step.  The store keeps one   *)
(* row per phone (memory_store.py: SELECT by key, INSERT .. ON CONFLICT    *)
(* DO UPDATE).  OWNER_PHONE is left at its default (None, main.py:33), so  *)
(* notify_owner returns at once and the /silencio owner alert is skipped.  *)
(***************************************************************************)
EXTENDS Integers, Sequences, FiniteSets, TLC

(***************************************************************************)
(* Bounds of the model.                                                    *)
(***************************************************************************)
MaxEvents == 2
MaxTicks == 2
TickStep == 1800
DedupMaxLen == 1
MaxCalls == 2
MaxTurns == 2
MaxHandoffEvents == 3
MaxLeadCalls == 2
LeadSetMaxLen == 1
MaxPhotoTurns == 4

(***************************************************************************)
(* Program constants.                                                      *)
(***************************************************************************)
AUTO_REACTIVATE_MINUTES == 60
HUMAN_DETECTION_WINDOW_SECONDS == 3
BotTextsMaxLen == 10
PhotoBatchSize == 3
LLM_MAX_RETRIES == 2
GRAPHQL_MAX_RETRIES == 3

VARIABLES
    now,                    \* time.time(), seconds
    events,                 \* delivered events in arrival order, with each one's position
    gateCount,              \* number of events that ran the synchronous head of process_single_event
    processed_message_ids,  \* bot_state.processed_message_ids (FIFO order, oldest first)
    evicted,                \* ids ever evicted from processed_message_ids
    silenced_users,         \* bot_state.silenced_users
    bot_sent_message_ids,   \* bot_state.bot_sent_message_ids
    bot_sent_texts,         \* bot_state.bot_sent_texts
    last_bot_message_time,  \* bot_state.last_bot_message_time
    processed_lead_ids,     \* bot_state.processed_lead_ids (FIFO order, oldest first)
    lead_evicted,           \* keys ever evicted from processed_lead_ids
    sessions,               \* the sessions table of the store
    writeLog,               \* per conversation, the events whose session write took effect, in order
    board,                  \* the items of the Monday board, in creation order (item id = position)
    calls,                  \* the create_or_update_lead calls made, each with its position
    llm,                    \* one _llm_call_with_fallback call: its position and what it did
    hm,                     \* one session under handle_message: its context and its last turn
    lead_check,             \* one candidate lead and what _lead_is_valid said about it, call by call
    gql,                    \* one _graphql call: its attempt, the answers it got, how it ended
    reply_check,            \* one raw reply of the model and what handle_message returned for it
    turn_task,              \* one text event after the gates, up to its reply (SpecDeadline)
    bset,                   \* a BoundedOrderedSet under add calls (SpecBounded)
    send_task,              \* one send_evolution_message call and the echo of its message (SpecEcho)
    catalog,                \* the shared InventoryService and one turn reading it (SpecCatalog)
    hist,                   \* the stored history of one session, turn by turn (SpecHistory)
    failures,               \* per event: how create_lead ended and whether process_single_event raised (SpecCrmFail)
    interest_check,         \* one call of _extract_interest_from_messages and what it returned (SpecInterest)
    mstore,                 \* the sessions table of one MemoryStore, the calls made on it and the last answer (SpecStore)
    crm_turn,               \* the turns of one session whose lead step ran, with the stage each passed to the CRM (SpecStage)
    fact_turns              \* the turns of one session that run at the same time, each with the session it loaded (SpecFacts)

pipeVars == <<now, events, gateCount, processed_message_ids, evicted, silenced_users,
              bot_sent_message_ids, bot_sent_texts, last_bot_message_time,
              processed_lead_ids, lead_evicted, sessions, writeLog>>
crmVars == <<board, calls>>
llmVars == <<llm>>
hmVars == <<hm>>
leadVars == <<lead_check>>
gqlVars == <<gql>>
replyVars == <<reply_check>>
taskVars == <<turn_task>>
bsetVars == <<bset>>
sendVars == <<send_task>>
catalogVars == <<catalog>>
histVars == <<hist>>
failVars == <<failures>>
interestVars == <<interest_check>>
storeVars == <<mstore>>
stageVars == <<crm_turn>>
factVars == <<fact_turns>>

vars == <<pipeVars, crmVars, llmVars, hmVars, leadVars, gqlVars, replyVars, taskVars,
          bsetVars, sendVars, catalogVars, histVars, failVars, interestVars, storeVars,
          stageVars, factVars>>

\* what the steps of one part of the program leave alone
notPipeVars == <<crmVars, llmVars, hmVars, leadVars, gqlVars, replyVars, taskVars,
                 bsetVars, sendVars, catalogVars, histVars, failVars, interestVars,
                 storeVars, stageVars, factVars>>
notCrmVars == <<pipeVars, llmVars, hmVars, leadVars, gqlVars, replyVars, taskVars,
                bsetVars, sendVars, catalogVars, histVars, failVars, interestVars,
                storeVars, stageVars, factVars>>
notLlmVars == <<pipeVars, crmVars, hmVars, leadVars, gqlVars, replyVars, taskVars,
                bsetVars, sendVars, catalogVars, histVars, failVars, interestVars,
                storeVars, stageVars, factVars>>
notHmVars == <<pipeVars, crmVars, llmVars, leadVars, gqlVars, replyVars, taskVars,
               bsetVars, sendVars, catalogVars, histVars, failVars, interestVars,
               storeVars, stageVars, factVars>>
notLeadVars == <<pipeVars, crmVars, llmVars, hmVars, gqlVars, replyVars, taskVars,
                 bsetVars, sendVars, catalogVars, histVars, failVars, interestVars,
                 storeVars, stageVars, factVars>>
notGqlVars == <<pipeVars, crmVars, llmVars, hmVars, leadVars, replyVars, taskVars,
                bsetVars, sendVars, catalogVars, histVars, failVars, interestVars,
                storeVars, stageVars, factVars>>
notReplyVars == <<pipeVars, crmVars, llmVars, hmVars, leadVars, gqlVars, taskVars,
                  bsetVars, sendVars, catalogVars, histVars, failVars, interestVars,
                  storeVars, stageVars, factVars>>
notTaskVars == <<pipeVars, crmVars, llmVars, hmVars, leadVars, gqlVars, replyVars,
                 bsetVars, sendVars, catalogVars, histVars, failVars, interestVars,
                 storeVars, stageVars, factVars>>
notBsetVars == <<pipeVars, crmVars, llmVars, hmVars, leadVars, gqlVars, replyVars,
                 taskVars, sendVars, catalogVars, histVars, failVars, interestVars,
                 storeVars, stageVars, factVars>>
notSendVars == <<pipeVars, crmVars, llmVars, hmVars, leadVars, gqlVars, replyVars,
                 taskVars, bsetVars, catalogVars, histVars, failVars, interestVars,
                 storeVars, stageVars, factVars>>
notCatalogVars == <<pipeVars, crmVars, llmVars, hmVars, leadVars, gqlVars, replyVars,
                    taskVars, bsetVars, sendVars, histVars, failVars, interestVars,
                    storeVars, stageVars, factVars>>
notHistVars == <<pipeVars, crmVars, llmVars, hmVars, leadVars, gqlVars, replyVars,
                 taskVars, bsetVars, sendVars, catalogVars, failVars, interestVars,
                 storeVars, stageVars, factVars>>
notFailVars == <<pipeVars, crmVars, llmVars, hmVars, leadVars, gqlVars, replyVars,
                 taskVars, bsetVars, sendVars, catalogVars, histVars, interestVars,
                 storeVars, stageVars, factVars>>
notInterestVars == <<pipeVars, crmVars, llmVars, hmVars, leadVars, gqlVars, replyVars,
                     taskVars, bsetVars, sendVars, catalogVars, histVars, failVars,
                     storeVars, stageVars, factVars>>
notStoreVars == <<pipeVars, crmVars, llmVars, hmVars, leadVars, gqlVars, replyVars,
                  taskVars, bsetVars, sendVars, catalogVars, histVars, failVars,
                  interestVars, stageVars, factVars>>
notStageVars == <<pipeVars, crmVars, llmVars, hmVars, leadVars, gqlVars, replyVars,
                  taskVars, bsetVars, sendVars, catalogVars, histVars, failVars,
                  interestVars, storeVars, factVars>>
notFactVars == <<pipeVars, crmVars, llmVars, hmVars, leadVars, gqlVars, replyVars,
                 taskVars, bsetVars, sendVars, catalogVars, histVars, failVars,
                 interestVars, storeVars, stageVars>>
notCrmStageVars == <<pipeVars, llmVars, hmVars, leadVars, gqlVars, replyVars, taskVars,
                     bsetVars, sendVars, catalogVars, histVars, failVars, interestVars,
                     storeVars, factVars>>
notPipeFailVars == <<crmVars, llmVars, hmVars, leadVars, gqlVars, replyVars, taskVars,
                     bsetVars, sendVars, catalogVars, histVars, interestVars, storeVars,
                     stageVars, factVars>>
notHmFactVars == <<pipeVars, crmVars, llmVars, leadVars, gqlVars, replyVars, taskVars,
                   bsetVars, sendVars, catalogVars, histVars, failVars, interestVars,
                   storeVars, stageVars>>
notPipeSendVars == <<crmVars, llmVars, hmVars, leadVars, gqlVars, replyVars, taskVars,
                     bsetVars, catalogVars, histVars, failVars, interestVars,
                     storeVars, stageVars, factVars>>

(***************************************************************************)
(* Vocabulary.                                                             *)
(***************************************************************************)
Jids == {"5215550001@s.whatsapp.net"}
MsgIds == {"", "m1", "m2"}
\* the id the transport gives to a message the engine sent (and to its echo)
SentId == "b1"

TextHola == "hola"
TextSilencio == "/silencio"
TextActivar == "/activar"
TextHuman == "te marco en un momento"
TextAmbiguous == "Claro, con gusto."

ReplyMuted == "Bot desactivado. Un asesor humano te atenderá en breve."
ReplyUnmuted == "Bot activado de nuevo. ¿En qué te ayudo?"
ReplyAudioProblem == "Tuve un problema escuchando el audio. ¿Me lo puedes escribir o mandar de nuevo?"
ReplyHandlerError == "Dame un momento..."
ReplyLLM == "Claro, con gusto."

\* message objects of the transport, as _extract_user_message reads them
MsgObj(type, body) == [type |-> type, body |-> body]

InboundObjs ==
    { MsgObj("conversation", TextHola), MsgObj("conversation", TextSilencio),
      MsgObj("conversation", TextActivar), MsgObj("conversation", ""),
      MsgObj("audioMessage", "") }

OutboundObjs ==
    { MsgObj("conversation", TextHuman), MsgObj("conversation", TextAmbiguous),
      MsgObj("conversation", "") }

Event(jid, from_me, id, msg) == [jid |-> jid, from_me |-> from_me, id |-> id, msg |-> msg]

\* The events delivered to the webhook: every inbound message under two ids, one
\* inbound message without id, outbound messages of a human agent, and the echo of
\* a message the engine sent.
Events ==
    { Event(j, FALSE, i, m) : j \in Jids, i \in MsgIds \ {""}, m \in InboundObjs }
    \cup { Event(j, FALSE, "", MsgObj("conversation", TextHola)) : j \in Jids }
    \cup { Event(j, TRUE, "m1", m) : j \in Jids, m \in OutboundObjs }
    \cup { Event(j, TRUE, SentId, MsgObj("conversation", ReplyLLM)) : j \in Jids }

\* what Whisper may return for a voice note
TranscriptTexts == {"", TextHola}

\* what handle_message may do in a turn, as process_single_event sees it
TurnOutcomes == {"reply", "reply_lead", "raise"}

\* whether store.upsert raised
UpsertOutcomes == {"ok", "fail"}

(***************************************************************************)
(* Pure helpers of main.py.                                                *)
(***************************************************************************)

\* _extract_user_message: (text, is_audio)
ExtractUserMessage(msg) ==
    CASE msg.type = "conversation" -> [text |-> msg.body, is_audio |-> FALSE]
      [] msg.type = "extendedTextMessage" -> [text |-> msg.body, is_audio |-> FALSE]
      [] msg.type = "imageMessage" ->
            [text |-> IF msg.body = "" THEN "(Envió una foto)" ELSE msg.body, is_audio |-> FALSE]
      [] msg.type \in {"audioMessage", "pttMessage"} -> [text |-> "", is_audio |-> TRUE]
      [] OTHER -> [text |-> "", is_audio |-> FALSE]

\* _message_looks_human on the texts of the vocabulary: an emoji, an advisor phrase
\* ("un momento", "te marco", ...) or a typical typo makes a text look human
HumanLookingTexts == {TextHuman, ReplyHandlerError}

MessageLooksHuman(text) == text # "" /\ text \in HumanLookingTexts

\* BoundedAdd with the newest key popped instead of the oldest
BoundedAddPopLast(s, key, maxlen) ==
    IF \E i \in 1..Len(s) : s[i] = key THEN s
    ELSE IF Len(s) >= maxlen THEN Append(SubSeq(s, 1, Len(s) - 1), key)
    ELSE Append(s, key)

\* BoundedOrderedSet.add
BoundedAdd(s, key, maxlen) ==
    IF \E i \in 1..Len(s) : s[i] = key THEN s
    ELSE IF Len(s) >= maxlen THEN Append(Tail(s), key)
    ELSE Append(s, key)

\* BoundedOrderedSet.__contains__
BoundedContains(s, key) == \E i \in 1..Len(s) : s[i] = key

\* the key BoundedOrderedSet.add evicts, as a set (empty when none is evicted)
BoundedEvicts(s, key, maxlen) ==
    IF ~BoundedContains(s, key) /\ Len(s) >= maxlen /\ Len(s) > 0 THEN {Head(s)} ELSE {}

\* deque(maxlen=10).append
DequeAppend(d, x, maxlen) ==
    IF Len(d) >= maxlen THEN Append(Tail(d), x) ELSE Append(d, x)

\* _is_bot_message: message id, exact recent text, time window since the last send
IsBotMessage(jid, msg_id, text) ==
    \/ msg_id # "" /\ msg_id \in bot_sent_message_ids
    \/ \E i \in 1..Len(bot_sent_texts[jid]) : bot_sent_texts[jid][i] = text
    \/ now - last_bot_message_time[jid] < HUMAN_DETECTION_WINDOW_SECONDS

\* the expiry main.py stores for an automatic silence set at time t
SilenceExpiry(t) == t + (AUTO_REACTIVATE_MINUTES * 60)

(***************************************************************************)
(* State of the pipeline.                                                  *)
(***************************************************************************)
NotSilenced == [kind |-> "none", until |-> 0]
Muted == [kind |-> "perm", until |-> 0]            \* silenced_users[jid] = True
TimedSilence(t) == [kind |-> "timed", until |-> t]  \* silenced_users[jid] = <timestamp>

\* store.get(jid) or {"state": "start", "context": {}}
\* context of a conversation without session: every context.get gives its default
EmptyContext ==
    [ last_bot_line |-> "",        \* the last "A:" line of context["history"]
      user_name |-> "", last_interest |-> "", last_appointment |-> "",
      last_payment |-> "", turn_count |-> 0,
      photo_model |-> "", photo_index |-> 0,
      last_pdf_request_type |-> "", funnel_stage |-> "" ]

NoLeadInfo == [some |-> FALSE, nombre |-> "", interes |-> "", cita |-> "", pago |-> ""]
LeadInfo(nombre, interes, cita, pago) ==
    [some |-> TRUE, nombre |-> nombre, interes |-> interes, cita |-> cita, pago |-> pago]

\* no turn of the session was made yet
NoTurn == [user_message |-> "", llm_ok |-> FALSE,
           llm_resp |-> [ok |-> FALSE, content |-> "", has_json |-> FALSE,
                         lead_event |-> NoLeadInfo],
           reply |-> "", media_urls |-> <<>>,
           lead_info |-> NoLeadInfo, pdf_kind |-> "none", funnel_stage |-> ""]

HmStart == [turns |-> 0, loaded |-> FALSE, items |-> <<>>, financing |-> <<>>,
            state |-> "start", context |-> EmptyContext, last |-> NoTurn]

\* no _llm_call_with_fallback call was made yet
LlmIdle == [pc |-> "idle", primary |-> "", provider |-> 0, attempt |-> 0,
            log |-> <<>>, result |-> <<>>]

NoSession == [exists |-> FALSE, state |-> "start", turn_count |-> 0]

\* One delivered event and the position of its process_single_event run.  The
\* fields from gseq on record what the run did.
NewEvent(ev, call) ==
    [ ev |-> ev, call |-> call, pc |-> "gate",
      text |-> "",            \* user_message
      state |-> "start",      \* session state read by store.get
      turn_count |-> 0,       \* context["turn_count"] read by store.get
      reply |-> "",           \* result["reply"]
      lead |-> FALSE,         \* result["lead_info"] is not None
      gseq |-> 0,             \* order in which the events ran the head of process_single_event
      gate_time |-> 0,        \* time.time() at that moment
      passed |-> FALSE,       \* went past the dedup check
      sil_kind |-> "",        \* the silence entry an inbound event found
      sil_until |-> 0,
      beyond |-> FALSE,       \* went past the silence check
      cls |-> "",             \* what a fromMe event was taken for
      replies |-> 0,          \* messages sent to the conversation for this event
      wrote |-> FALSE,        \* store.upsert took effect for this event
      crm |-> FALSE ]         \* monday_service.create_lead was called for this event

NextCall == IF events = <<>> THEN 1 ELSE events[Len(events)].call + 1

\* _background_process_events: the events of one webhook call run one after another
Runnable(k) ==
    /\ events[k].pc # "done"
    /\ \A i \in 1..(k - 1) : events[i].call = events[k].call => events[i].pc = "done"

\* send_evolution_message(jid, text) with no media, delivered: the bookkeeping of lines 483-498
SentIdsAfter(text) == IF text = "" THEN bot_sent_message_ids ELSE bot_sent_message_ids \cup {SentId}
SentTextsAfter(jid, text) ==
    IF text = "" THEN bot_sent_texts
    ELSE [bot_sent_texts EXCEPT ![jid] = DequeAppend(@, text, BotTextsMaxLen)]
SentTimeAfter(jid, text) ==
    IF text = "" THEN last_bot_message_time
    ELSE [last_bot_message_time EXCEPT ![jid] = now]

\* no _graphql call made yet
GqlIdle == [pc |-> "idle", attempt |-> 0, log |-> <<>>, sleeps |-> <<>>, result |-> ""]

\* no raw reply taken yet
ReplyIdle == [pc |-> "idle", raw |-> "", user_message |-> "", reply |-> ""]

\* no event is past the gates
TaskIdle == [pc |-> "idle", user_message |-> "", reply |-> "", sent |-> "", elapsed |-> 0]

\* the keys added to the set of SpecBounded
SetKeys == {"k1", "k2", "k3", "k4"}

\* BoundedOrderedSet.__init__: no key; born[k] is the number of the add call that
\* inserted k (0 while k is absent), seen the kinds of add calls made so far
BsetEmpty == [data |-> <<>>, born |-> [k \in SetKeys |-> 0], adds |-> 0, last_key |-> "", seen |-> {}]

\* no message is being sent; sends counts the calls made
SendIdle == [pc |-> "idle", kind |-> "", text |-> "", id |-> "", resp_id |-> "", sends |-> 0, echo |-> "none", raced |-> FALSE]

\* InventoryService.__init__ and no turn under way: reads are the catalogs the turn saw
CatalogStart == [items |-> <<>>, last_load_ts |-> 0, clock |-> 0, pc |-> "idle", reads |-> <<>>, refreshed |-> FALSE]

\* a conversation without session: no history, no turn made
HistStart == [history |-> "", context |-> EmptyContext, state |-> "start", turns |-> 0, user_message |-> "", reply |-> "", outcome |-> "none"]

\* no event ran yet: create_lead was not called, no process_single_event raised
NoFailures == [k \in 1..MaxEvents |-> [crm |-> "none", escaped |-> FALSE]]

\* _extract_interest_from_messages was not called yet
InterestIdle == [pc |-> "idle", user_message |-> "", reply |-> "", items |-> <<>>, result |-> ""]

\* the conversation identities of SpecStore
StoreKeys == {"5215550001@s.whatsapp.net", "5215550002@s.whatsapp.net"}

\* MemoryStore.init on a new file: the table has no row; written[k] is what the
\* last upsert for k was given (none yet), last the last call and its answer
StoreEmpty ==
    [ rows |-> <<>>, ops |-> 0,
      written |-> [k \in StoreKeys |-> [some |-> FALSE, state |-> "", context |-> <<>>]],
      last |-> [op |-> "none", phone |-> "", result |-> [some |-> FALSE, state |-> "", context |-> <<>>]] ]

\* no turn of the session has reached the lead step of process_single_event
NoCrmTurns == [handled |-> 0, log |-> <<>>]

\* no turn of the session is in flight, none was started and no command was taken
MaxFactTasks == 2
NoFactTurns ==
    [ task |-> [k \in 1..MaxFactTasks |->
                   [pc |-> "idle", user_message |-> "", state |-> "start",
                    context |-> EmptyContext]],
      started |-> 0, commands |-> 0,
      last |-> [user_message |-> "", llm_ok |-> FALSE, content |-> "", raised |-> FALSE] ]

Init ==
    /\ now = TickStep
    /\ events = <<>>
    /\ gateCount = 0
    /\ processed_message_ids = <<>>
    /\ evicted = {}
    /\ silenced_users = [j \in Jids |-> NotSilenced]
    /\ bot_sent_message_ids = {}
    /\ bot_sent_texts = [j \in Jids |-> <<>>]
    /\ last_bot_message_time = [j \in Jids |-> 0]
    /\ processed_lead_ids = <<>>
    /\ lead_evicted = {}
    /\ sessions = [j \in Jids |-> NoSession]
    /\ writeLog = [j \in Jids |-> <<>>]
    /\ board = <<>>
    /\ calls = <<>>
    /\ llm = LlmIdle
    /\ hm = HmStart
    /\ lead_check = [picked |-> FALSE, candidate |-> <<>>, results |-> <<>>]
    /\ gql = GqlIdle
    /\ reply_check = ReplyIdle
    /\ turn_task = TaskIdle
    /\ bset = BsetEmpty
    /\ send_task = SendIdle
    /\ catalog = CatalogStart
    /\ hist = HistStart
    /\ failures = NoFailures
    /\ interest_check = InterestIdle
    /\ mstore = StoreEmpty
    /\ crm_turn = NoCrmTurns
    /\ fact_turns = NoFactTurns

\* evolution_webhook: one call delivers one event or a list of events
Webhook(batch) ==
    /\ Len(events) + Len(batch) <= MaxEvents
    /\ events' = events \o [i \in 1..Len(batch) |-> NewEvent(batch[i], NextCall)]
    /\ UNCHANGED <<now, gateCount, processed_message_ids, evicted, silenced_users,
                   bot_sent_message_ids, bot_sent_texts, last_bot_message_time,
                   processed_lead_ids, lead_evicted, sessions, writeLog>>
    /\ UNCHANGED notPipeVars

\* time passes
Tick ==
    /\ now < TickStep * (MaxTicks + 1)
    /\ now' = now + TickStep
    /\ UNCHANGED <<events, gateCount, processed_message_ids, evicted, silenced_users,
                   bot_sent_message_ids, bot_sent_texts, last_bot_message_time,
                   processed_lead_ids, lead_evicted, sessions, writeLog>>
    /\ UNCHANGED notPipeVars

(***************************************************************************)
(* process_single_event, lines 541-655: everything up to the first await.  *)
(***************************************************************************)

\* lines 547-554: events without a conversation, of groups and of broadcasts are ignored
GroupJids == {"120363041234567890@g.us", "status@broadcast"}
IgnoredJid(jid) == jid = "" \/ jid \in GroupJids

\* DedupAfter without the add of line 562
DedupAfterNoAdd(ids, id) == ids

\* lines 557-562: the dedup set after an event with this id went through the check
DedupAfter(ids, id) == IF id # "" THEN BoundedAdd(ids, id, DedupMaxLen) ELSE ids

\* SilenceBlocks with the comparison of line 596 turned into <=
SilenceBlocksInclusive(sv, t) ==
    \/ sv.kind = "timed" /\ t <= sv.until
    \/ sv.kind = "perm"

\* lines 595-605: whether the silence entry sv stops an inbound message at time t
SilenceBlocks(sv, t) ==
    \/ sv.kind = "timed" /\ t < sv.until
    \/ sv.kind = "perm"

\* lines 600-601: an expired automatic silence is deleted
SilenceAfterCheck(sil, jid, t) ==
    IF sil[jid].kind = "timed" /\ ~(t < sil[jid].until)
    THEN [sil EXCEPT ![jid] = NotSilenced]
    ELSE sil

\* lines 576-581: a human-authored outbound message silences the conversation
SilenceAfterHuman(sil, jid, t) == [sil EXCEPT ![jid] = TimedSilence(SilenceExpiry(t))]

\* lines 571-589 without the test of line 576: every outbound message that is
\* not the engine's own is taken for a human agent's
ClassifyOutboundAllHuman(jid, msg_id, text) ==
    IF IsBotMessage(jid, msg_id, text) THEN "bot" ELSE "human"

\* lines 571-589: what a fromMe event is taken for
ClassifyOutbound(jid, msg_id, text) ==
    IF IsBotMessage(jid, msg_id, text) THEN "bot"
    ELSE IF MessageLooksHuman(text) THEN "human"
    ELSE IF text = "" THEN "empty"
    ELSE "ambiguous"

\* lines 626-655: an inbound text that went past the silence check.
\* pc is where the run continues, send the text sent to the conversation ("" for none)
AfterText(sil, jid, text) ==
    IF text = "" THEN [pc |-> "done", sil |-> sil, send |-> ""]
    ELSE IF text = TextSilencio
        THEN [pc |-> "done", sil |-> [sil EXCEPT ![jid] = Muted], send |-> ReplyMuted]
    ELSE IF text = TextActivar
        THEN [pc |-> "done", sil |-> [sil EXCEPT ![jid] = NotSilenced], send |-> ReplyUnmuted]
    ELSE [pc |-> "load", sil |-> sil, send |-> ""]

\* the head of process_single_event for event k
Gate(k) ==
    /\ k \in 1..Len(events)
    /\ Runnable(k)
    /\ events[k].pc = "gate"
    /\ LET e == events[k]
           jid == e.ev.jid
           id == e.ev.id
           um == ExtractUserMessage(e.ev.msg)
           seen == [e EXCEPT !.gseq = gateCount + 1, !.gate_time = now]
           dup == id # "" /\ BoundedContains(processed_message_ids, id)
           cls == ClassifyOutbound(jid, id, um.text)
           sv == silenced_users[jid]
           sil1 == SilenceAfterCheck(silenced_users, jid, now)
           at == AfterText(sil1, jid, um.text)
           found == [seen EXCEPT !.passed = TRUE, !.sil_kind = sv.kind, !.sil_until = sv.until]
       IN
       /\ gateCount' = gateCount + 1
       /\ IF IgnoredJid(jid) \/ dup
          THEN /\ events' = [events EXCEPT ![k] = [seen EXCEPT !.pc = "done"]]
               /\ UNCHANGED <<processed_message_ids, evicted, silenced_users,
                              bot_sent_message_ids, bot_sent_texts, last_bot_message_time>>
          ELSE /\ processed_message_ids' = DedupAfter(processed_message_ids, id)
               /\ evicted' = evicted \cup
                     (IF id # "" THEN BoundedEvicts(processed_message_ids, id, DedupMaxLen) ELSE {})
               /\ IF e.ev.from_me
                  THEN /\ events' = [events EXCEPT ![k] =
                                [seen EXCEPT !.pc = "done", !.passed = TRUE, !.cls = cls]]
                       /\ silenced_users' = IF cls = "human"
                                            THEN SilenceAfterHuman(silenced_users, jid, now)
                                            ELSE silenced_users
                       /\ UNCHANGED <<bot_sent_message_ids, bot_sent_texts, last_bot_message_time>>
                  ELSE IF SilenceBlocks(sv, now)
                  THEN /\ events' = [events EXCEPT ![k] = [found EXCEPT !.pc = "done"]]
                       /\ UNCHANGED <<silenced_users, bot_sent_message_ids, bot_sent_texts,
                                      last_bot_message_time>>
                  ELSE IF um.text = "" /\ um.is_audio
                  THEN /\ events' = [events EXCEPT ![k] =
                                [found EXCEPT !.pc = "audio", !.beyond = TRUE]]
                       /\ silenced_users' = sil1
                       /\ UNCHANGED <<bot_sent_message_ids, bot_sent_texts, last_bot_message_time>>
                  ELSE /\ events' = [events EXCEPT ![k] =
                                [found EXCEPT !.pc = at.pc, !.beyond = TRUE, !.text = um.text,
                                              !.replies = IF at.send = "" THEN 0 ELSE 1]]
                       /\ silenced_users' = at.sil
                       /\ bot_sent_message_ids' = SentIdsAfter(at.send)
                       /\ bot_sent_texts' = SentTextsAfter(jid, at.send)
                       /\ last_bot_message_time' = SentTimeAfter(jid, at.send)
    /\ UNCHANGED <<now, processed_lead_ids, lead_evicted, sessions, writeLog>>
    /\ UNCHANGED notPipeVars

\* lines 613-624 and on: the voice note came back from _handle_audio_transcription
Audio(k, transcript) ==
    /\ k \in 1..Len(events)
    /\ Runnable(k)
    /\ events[k].pc = "audio"
    /\ LET e == events[k]
           jid == e.ev.jid
           at == IF transcript = ""
                 THEN [pc |-> "done", sil |-> silenced_users, send |-> ReplyAudioProblem]
                 ELSE AfterText(silenced_users, jid, transcript)
       IN
       /\ events' = [events EXCEPT ![k] =
                        [e EXCEPT !.pc = at.pc, !.text = transcript,
                                  !.replies = IF at.send = "" THEN 0 ELSE 1]]
       /\ silenced_users' = at.sil
       /\ bot_sent_message_ids' = SentIdsAfter(at.send)
       /\ bot_sent_texts' = SentTextsAfter(jid, at.send)
       /\ last_bot_message_time' = SentTimeAfter(jid, at.send)
    /\ UNCHANGED <<now, gateCount, processed_message_ids, evicted, processed_lead_ids,
                   lead_evicted, sessions, writeLog>>
    /\ UNCHANGED notPipeVars

(***************************************************************************)
(* process_single_event, lines 657-709: the turn.                          *)
(***************************************************************************)

\* line 657: session = await store.get(remote_jid) or {"state": "start", "context": {}}
Load(k) ==
    /\ k \in 1..Len(events)
    /\ Runnable(k)
    /\ events[k].pc = "load"
    /\ events' = [events EXCEPT ![k] =
                    [@ EXCEPT !.pc = "turn",
                              !.state = sessions[events[k].ev.jid].state,
                              !.turn_count = sessions[events[k].ev.jid].turn_count]]
    /\ UNCHANGED <<now, gateCount, processed_message_ids, evicted, silenced_users,
                   bot_sent_message_ids, bot_sent_texts, last_bot_message_time,
                   processed_lead_ids, lead_evicted, sessions, writeLog>>
    /\ UNCHANGED notPipeVars

\* conversation_logic.handle_message, lines 1561-1564 and 1715: the turn counter of the
\* context that handle_message returns
NextTurnCount(turn_count) == turn_count + 1

\* lines 664-678: the result of the turn, from handle_message or from the except branch
TurnResult(e, outcome) ==
    IF outcome = "raise"
    THEN [reply |-> ReplyHandlerError, new_state |-> e.state,
          turn_count |-> e.turn_count, lead |-> FALSE]
    ELSE [reply |-> ReplyLLM, new_state |-> "chatting",
          turn_count |-> NextTurnCount(e.turn_count), lead |-> (outcome = "reply_lead")]

\* lines 662-687: the typing delay, handle_message and store.upsert
Turn(k, outcome, upsert) ==
    /\ k \in 1..Len(events)
    /\ Runnable(k)
    /\ events[k].pc = "turn"
    /\ LET e == events[k]
           jid == e.ev.jid
           r == TurnResult(e, outcome)
       IN
       /\ events' = [events EXCEPT ![k] =
                        [e EXCEPT !.pc = "send", !.reply = r.reply, !.lead = r.lead,
                                  !.wrote = (upsert = "ok")]]
       /\ IF upsert = "ok"
          THEN /\ sessions' = [sessions EXCEPT ![jid] =
                                  [exists |-> TRUE, state |-> r.new_state,
                                   turn_count |-> r.turn_count]]
               /\ writeLog' = [writeLog EXCEPT ![jid] = Append(@, k)]
          ELSE UNCHANGED <<sessions, writeLog>>
    /\ UNCHANGED <<now, gateCount, processed_message_ids, evicted, silenced_users,
                   bot_sent_message_ids, bot_sent_texts, last_bot_message_time,
                   processed_lead_ids, lead_evicted>>
    /\ UNCHANGED notPipeVars

\* line 689: await send_evolution_message(remote_jid, reply_text, media_urls)
Send(k) ==
    /\ k \in 1..Len(events)
    /\ Runnable(k)
    /\ events[k].pc = "send"
    /\ LET e == events[k]
           jid == e.ev.jid
       IN
       /\ events' = [events EXCEPT ![k] =
                        [e EXCEPT !.pc = IF e.lead THEN "lead" ELSE "done",
                                  !.replies = @ + 1]]
       /\ bot_sent_message_ids' = SentIdsAfter(e.reply)
       /\ bot_sent_texts' = SentTextsAfter(jid, e.reply)
       /\ last_bot_message_time' = SentTimeAfter(jid, e.reply)
    /\ UNCHANGED <<now, gateCount, processed_message_ids, evicted, silenced_users,
                   processed_lead_ids, lead_evicted, sessions, writeLog>>
    /\ UNCHANGED notPipeVars

\* line 693: lead_key = f"{remote_jid}|{msg_id}|lead"
\* line 697 without the add: the key is never remembered
LeadIdsAfterNoAdd(ids, key) == ids

\* line 697: bot_state.processed_lead_ids.add(lead_key)
LeadIdsAfter(ids, key) == BoundedAdd(ids, key, LeadSetMaxLen)

LeadKey(jid, msg_id) == <<jid, msg_id, "lead">>

\* lines 691-707 with the session written at the end of the turn, after the CRM
\* upsert, as the data flow of the documentation has it
LeadThenPersist(k) ==
    /\ k \in 1..Len(events)
    /\ Runnable(k)
    /\ events[k].pc = "lead"
    /\ LET e == events[k]
           jid == e.ev.jid
           key == LeadKey(jid, e.ev.id)
       IN
       /\ events' = [events EXCEPT ![k] = [e EXCEPT !.pc = "done", !.crm = TRUE, !.wrote = TRUE]]
       /\ processed_lead_ids' = LeadIdsAfter(processed_lead_ids, key)
       /\ lead_evicted' = lead_evicted \cup BoundedEvicts(processed_lead_ids, key, LeadSetMaxLen)
       /\ sessions' = [sessions EXCEPT ![jid] =
                          [exists |-> TRUE, state |-> "chatting", turn_count |-> e.turn_count + 1]]
       /\ writeLog' = [writeLog EXCEPT ![jid] = Append(@, k)]
    /\ UNCHANGED <<now, gateCount, processed_message_ids, evicted, silenced_users,
                   bot_sent_message_ids, bot_sent_texts, last_bot_message_time>>
    /\ UNCHANGED notPipeVars

\* lines 691-707: the lead goes to the CRM unless its key was seen
Lead(k) ==
    /\ k \in 1..Len(events)
    /\ Runnable(k)
    /\ events[k].pc = "lead"
    /\ LET e == events[k]
           key == LeadKey(e.ev.jid, e.ev.id)
       IN
       IF BoundedContains(processed_lead_ids, key)
       THEN /\ events' = [events EXCEPT ![k] = [e EXCEPT !.pc = "done"]]
            /\ UNCHANGED <<processed_lead_ids, lead_evicted>>
       ELSE /\ events' = [events EXCEPT ![k] = [e EXCEPT !.pc = "done", !.crm = TRUE]]
            /\ processed_lead_ids' = LeadIdsAfter(processed_lead_ids, key)
            /\ lead_evicted' = lead_evicted
                                 \cup BoundedEvicts(processed_lead_ids, key, LeadSetMaxLen)
    /\ UNCHANGED <<now, gateCount, processed_message_ids, evicted, silenced_users,
                   bot_sent_message_ids, bot_sent_texts, last_bot_message_time,
                   sessions, writeLog>>
    /\ UNCHANGED notPipeVars

Batches == { <<a>> : a \in Events } \cup { <<a, b>> : a \in Events, b \in Events }

Next ==
    \/ \E batch \in Batches : Webhook(batch)
    \/ Tick
    \/ \E k \in 1..MaxEvents : Gate(k)
    \/ \E k \in 1..MaxEvents, t \in TranscriptTexts : Audio(k, t)
    \/ \E k \in 1..MaxEvents : Load(k)
    \/ \E k \in 1..MaxEvents, o \in TurnOutcomes, u \in UpsertOutcomes : Turn(k, o, u)
    \/ \E k \in 1..MaxEvents : Send(k)
    \/ \E k \in 1..MaxEvents : Lead(k)

Spec == Init /\ [][Next]_vars

(***************************************************************************)
(* SpecHandoff: the same pipeline for the hand-over to a human agent: one  *)
(* event per webhook call, text messages only, up to MaxHandoffEvents      *)
(* deliveries, so that a second human-authored message can come between    *)
(* the first one and the customer's next message.                          *)
(* The session store answers every write (store failures are in Spec).     *)
(***************************************************************************)

HandoffEvents ==
    { Event(j, TRUE, i, MsgObj("conversation", TextHuman)) : j \in Jids, i \in MsgIds \ {""} }
    \cup { Event(j, FALSE, "", MsgObj("conversation", TextHola)) : j \in Jids }

\* evolution_webhook called with one event
Deliver(ev) ==
    /\ Len(events) < MaxHandoffEvents
    /\ events' = Append(events, NewEvent(ev, NextCall))
    /\ UNCHANGED <<now, gateCount, processed_message_ids, evicted, silenced_users,
                   bot_sent_message_ids, bot_sent_texts, last_bot_message_time,
                   processed_lead_ids, lead_evicted, sessions, writeLog>>
    /\ UNCHANGED notPipeVars

NextHandoff ==
    \/ \E ev \in HandoffEvents : Deliver(ev)
    \/ Tick
    \/ \E k \in 1..MaxHandoffEvents : Gate(k)
    \/ \E k \in 1..MaxHandoffEvents : Load(k)
    \/ \E k \in 1..MaxHandoffEvents, o \in TurnOutcomes : Turn(k, o, "ok")
    \/ \E k \in 1..MaxHandoffEvents : Send(k)
    \/ \E k \in 1..MaxHandoffEvents : Lead(k)

SpecHandoff == Init /\ [][NextHandoff]_vars

(***************************************************************************)
(* SpecRedelivery: the same pipeline for up to MaxHandoffEvents deliveries *)
(* of customer messages, the transport delivering a message again under    *)
(* the id it had; every turn answers, with or without a lead.              *)
(***************************************************************************)
RedeliveryEvents ==
    { Event(j, FALSE, i, MsgObj("conversation", TextHola)) : j \in Jids, i \in MsgIds }

NextRedelivery ==
    \/ \E ev \in RedeliveryEvents : Deliver(ev)
    \/ \E k \in 1..MaxHandoffEvents : Gate(k)
    \/ \E k \in 1..MaxHandoffEvents : Load(k)
    \/ \E k \in 1..MaxHandoffEvents, o \in {"reply", "reply_lead"} : Turn(k, o, "ok")
    \/ \E k \in 1..MaxHandoffEvents : Send(k)
    \/ \E k \in 1..MaxHandoffEvents : Lead(k)

SpecRedelivery == Init /\ [][NextRedelivery]_vars

(***************************************************************************)
(* Properties of the pipeline.                                             *)
(***************************************************************************)
Idx == 1..Len(events)
Inbound(k) == ~events[k].ev.from_me
GateRan(k) == events[k].gseq > 0
SameJid(a, b) == events[a].ev.jid = events[b].ev.jid
CmdText(k) == ExtractUserMessage(events[k].ev.msg).text

\* C1: of two events with the same non-empty message id, at most one goes past the
\* dedup check while the id is held in the dedup set (it was never evicted); the
\* other ends at the check: no reply, no session write, no CRM call.
C1_DedupGate ==
    \A a \in Idx, b \in Idx :
        ( /\ a # b
          /\ events[a].ev.id = events[b].ev.id
          /\ events[a].ev.id # ""
          /\ events[a].ev.id \notin evicted
          /\ events[a].passed
          /\ GateRan(b) )
        => /\ ~events[b].passed
           /\ events[b].pc = "done"
           /\ events[b].replies = 0
           /\ ~events[b].wrote
           /\ ~events[b].crm

\* C1 witness: a first delivery was answered, a second delivery of the same id was dropped
C1_Witness ==
    \E a \in Idx, b \in Idx :
        /\ a # b
        /\ events[a].ev.id = events[b].ev.id
        /\ events[a].ev.id # ""
        /\ events[a].ev.id \notin evicted
        /\ events[a].passed /\ events[a].replies > 0
        /\ GateRan(b) /\ ~events[b].passed

\* C2: two events of one conversation that came in separate webhook calls are never
\* both between their session load and their session write, and the session writes
\* of a conversation happen in arrival order.
C2_TurnsSerialized ==
    /\ \A a \in Idx, b \in Idx :
          (a # b /\ SameJid(a, b) /\ events[a].call # events[b].call)
          => ~(events[a].pc = "turn" /\ events[b].pc = "turn")
    /\ \A j \in Jids : \A p \in 1..Len(writeLog[j]), q \in 1..Len(writeLog[j]) :
          p < q => writeLog[j][p] < writeLog[j][q]

\* C5: the stored turn_count of a conversation equals the number of its turns whose
\* session write took effect (it grows by exactly 1 per processed turn and never drops).
C5_TurnCountCounts ==
    \A j \in Jids :
        sessions[j].turn_count =
            Cardinality({k \in Idx : events[k].ev.jid = j /\ events[k].wrote})

MuteProcessed(k) == Inbound(k) /\ events[k].beyond /\ events[k].text = TextSilencio
UnmuteProcessed(k) == Inbound(k) /\ events[k].beyond /\ events[k].text = TextActivar
HumanDetected(k) == events[k].ev.from_me /\ events[k].cls = "human"

\* C6: while a processed /silencio has not been followed by a processed /activar, the
\* conversation stays permanently muted (never an expiring silence) and no inbound
\* message processed after the mute gets a reply.
C6_MuteIsPermanent ==
    \A m \in Idx :
        ( /\ MuteProcessed(m)
          /\ ~\E u \in Idx : UnmuteProcessed(u) /\ SameJid(u, m)
                              /\ events[u].gseq > events[m].gseq )
        => /\ silenced_users[events[m].ev.jid] = Muted
           /\ \A e \in Idx :
                 (Inbound(e) /\ SameJid(e, m) /\ events[e].gseq > events[m].gseq)
                 => events[e].replies = 0

\* C7: once a delivered /activar (not a duplicate delivery) has been handled, and no
\* mute command or human-authored message came after it, the conversation has no
\* silence entry and every later inbound message goes past the silence check.
C7_UnmuteReactivates ==
    \A u \in Idx :
        ( /\ Inbound(u) /\ CmdText(u) = TextActivar
          /\ events[u].passed /\ events[u].pc = "done"
          /\ ~\E x \in Idx : /\ SameJid(x, u) /\ events[x].gseq > events[u].gseq
                             /\ (MuteProcessed(x) \/ HumanDetected(x)) )
        => /\ silenced_users[events[u].ev.jid] = NotSilenced
           /\ \A e \in Idx :
                 ( Inbound(e) /\ SameJid(e, u) /\ events[e].gseq > events[u].gseq
                   /\ events[e].passed )
                 => events[e].beyond

\* C8: after a human-authored outbound message processed at time t, an inbound
\* message of the conversation processed before t + AUTO_REACTIVATE_MINUTES gets no
\* reply; the timed entry an inbound message finds is the one of a human-authored
\* message (its time + AUTO_REACTIVATE_MINUTES); an inbound message processed at or
\* after the expiry of the entry it finds goes on as a normal turn and the entry is
\* removed.
C8_TimedSilence ==
    /\ \A h \in Idx, e \in Idx :
          ( /\ HumanDetected(h) /\ Inbound(e) /\ SameJid(h, e)
            /\ events[e].gseq > events[h].gseq
            /\ events[e].gate_time < events[h].gate_time + (AUTO_REACTIVATE_MINUTES * 60) )
          => /\ events[e].replies = 0
             /\ ~events[e].beyond
             /\ events[e].pc = "done"
    /\ \A e \in Idx :
          (Inbound(e) /\ events[e].sil_kind = "timed")
          => /\ \E h \in Idx :
                   /\ HumanDetected(h) /\ SameJid(h, e)
                   /\ events[h].gseq < events[e].gseq
                   /\ events[e].sil_until
                        = events[h].gate_time + (AUTO_REACTIVATE_MINUTES * 60)
             /\ (events[e].gate_time >= events[e].sil_until)
                   => /\ events[e].beyond
                      /\ silenced_users[events[e].ev.jid]
                            # TimedSilence(events[e].sil_until)

\* C8 as stated, with the expiry counted from the human-authored message itself: an
\* inbound message processed before t + AUTO_REACTIVATE_MINUTES gets no reply, and the
\* first delivered one processed at or after t + AUTO_REACTIVATE_MINUTES goes on as a
\* normal turn.
C8_FirstAfterExpiryAnswered ==
    \A h \in Idx, e \in Idx :
        ( /\ HumanDetected(h) /\ Inbound(e) /\ SameJid(h, e)
          /\ events[e].gseq > events[h].gseq
          /\ events[e].passed )
        => IF events[e].gate_time < events[h].gate_time + (AUTO_REACTIVATE_MINUTES * 60)
           THEN events[e].replies = 0 /\ ~events[e].beyond
           ELSE (~\E x \in Idx :
                    /\ Inbound(x) /\ SameJid(x, h) /\ events[x].passed
                    /\ events[x].gseq > events[h].gseq /\ events[x].gseq < events[e].gseq
                    /\ events[x].gate_time
                          >= events[h].gate_time + (AUTO_REACTIVATE_MINUTES * 60))
                => events[e].beyond

\* C8 witness: a message that came at the expiry of a human-triggered silence was answered
C8_Witness ==
    \E h \in Idx, e \in Idx :
        /\ HumanDetected(h) /\ Inbound(e) /\ SameJid(h, e)
        /\ events[e].sil_kind = "timed"
        /\ events[e].gate_time >= events[e].sil_until
        /\ events[e].beyond /\ events[e].replies > 0 /\ events[e].wrote

\* two deliveries of one (conversation id, inbound message id) pair
SameDelivery(a, b) ==
    a # b /\ events[a].ev.jid = events[b].ev.jid /\ events[a].ev.id = events[b].ev.id

\* C17: two deliveries of one (conversation id, message id) pair both reach
\* monday_service.create_lead only if the lead key was evicted from
\* processed_lead_ids; while the key is held the upsert runs at most once.
C17_LeadOncePerMessage ==
    \A a \in 1..Len(events), b \in 1..Len(events) :
        (SameDelivery(a, b) /\ events[a].crm /\ events[b].crm)
        => LeadKey(events[a].ev.jid, events[a].ev.id) \in lead_evicted

\* C17 witness: a message with an id went to the CRM, its id left the message
\* dedup set, it was delivered again and its turn gave a lead again, which the
\* lead key, still held, kept from the CRM
C17_Witness ==
    \E a \in 1..Len(events), b \in 1..Len(events) :
        /\ SameDelivery(a, b) /\ events[a].ev.id # ""
        /\ events[a].crm
        /\ events[b].pc = "done" /\ events[b].lead /\ ~events[b].crm
        /\ BoundedContains(processed_lead_ids, LeadKey(events[a].ev.jid, events[a].ev.id))
        /\ LeadKey(events[a].ev.jid, events[a].ev.id) \notin lead_evicted

(***************************************************************************)
(* SpecCRM: monday_service.py, MondayService.create_or_update_lead.        *)
(* The method awaits the lookup, then the create or update mutation, then  *)
(* the note mutation; calls made by different tasks interleave at these    *)
(* awaits.  The board is configured (dedupe and stage columns set).        *)
(***************************************************************************)

\* STAGE_HIERARCHY.get(stage, 0)
StageRank(stage) ==
    CASE stage = "1er Contacto" -> 1
      [] stage = "Intención" -> 2
      [] stage = "Cotización" -> 3
      [] stage = "Cita Programada" -> 4
      [] OTHER -> 0

TERMINAL_STAGES == {"Venta Cerrada", "Venta Caida", "Sin Interes"}

\* the stage argument of create_or_update_lead ("" for None)
CandidateStages ==
    {"", "1er Contacto", "Intención", "Cotización", "Cita Programada", "Sin Interes"}

\* lead_data["telefono"] as a caller may pass it
RawPhones == {"5215550001", "+52 1 555-0001", ""}

DigitChars == {"0", "1", "2", "3", "4", "5", "6", "7", "8", "9"}

\* _sanitize_phone: re.sub(r'\D', '', phone)
RECURSIVE SanitizePhone(_)
SanitizePhone(phone) ==
    IF phone = "" THEN ""
    ELSE LET c == SubSeq(phone, 1, 1)
             rest == SanitizePhone(SubSeq(phone, 2, Len(phone)))
         IN IF c \in DigitChars THEN c \o rest ELSE rest

\* _should_advance_stage with the comparison of the ranks turned into "differs"
ShouldAdvanceStageLoose(current_stage, candidate_stage) ==
    StageRank(candidate_stage) # StageRank(current_stage)

\* _should_advance_stage
ShouldAdvanceStage(current_stage, candidate_stage) ==
    StageRank(candidate_stage) > StageRank(current_stage)

\* _build_column_values, lines 409-421: the label put in the stage column ("" for none)
StageWrite(stage, is_new, current_stage) ==
    IF stage = "" THEN ""
    ELSE IF is_new THEN stage
    ELSE IF stage = "Sin Interes" THEN stage
    ELSE IF ShouldAdvanceStage(current_stage, stage) THEN stage
    ELSE ""

NoItem == [found |-> FALSE, id |-> 0, current_stage |-> ""]

\* _find_item_by_phone: the item of this phone with the highest id
FindItemByPhone(b, phone) ==
    LET ids == {i \in 1..Len(b) : b[i].phone = phone}
    IN IF ids = {} THEN NoItem
       ELSE LET best == CHOOSE i \in ids : \A o \in ids : o <= i
            IN [found |-> TRUE, id |-> best, current_stage |-> b[best].stage]

\* what the lookup request may do: answer with the items page, answer with an
\* "errors" body that has no items, or raise after the retries of _graphql
FindOutcomes == {"items", "errors", "raise"}

\* lead_data["nombre"] as a caller may pass it
Nombres == {"", " Ana Ruiz"}

\* str.strip of blanks
RECURSIVE StripEnds(_)
StripEnds(s) ==
    IF s = "" THEN ""
    ELSE IF SubSeq(s, 1, 1) = " " THEN StripEnds(SubSeq(s, 2, Len(s)))
    ELSE IF SubSeq(s, Len(s), Len(s)) = " " THEN StripEnds(SubSeq(s, 1, Len(s) - 1))
    ELSE s

\* line 457: str(lead_data.get("nombre", "")).strip() or "Lead sin nombre"
NombreOf(nombre) == IF StripEnds(nombre) = "" THEN "Lead sin nombre" ELSE StripEnds(nombre)

\* lines 503 and 541: the item name, f"{nombre} | {phone_limpio}"
ItemName(nombre, phone) == nombre \o " | " \o phone

\* lines 472-487 with the reset on a terminal stage left out: only a phone
\* without any record starts a new item
IsNewItemReuseTerminal(existing) == ~existing.found

\* lines 472-487: is_new, a new item for a phone without a record or whose
\* newest record is in a terminal stage
IsNewItem(existing) ==
    ~existing.found \/ existing.current_stage \in TERMINAL_STAGES

\* lines 455-462: a call begins
NewCall(raw, nombre, stage, add_note) ==
    [ raw |-> raw, phone |-> SanitizePhone(raw), stage |-> stage, add_note |-> add_note,
      nombre |-> NombreOf(nombre),
      pc |-> IF SanitizePhone(raw) = "" THEN "done" ELSE "find",
      looked |-> FALSE,       \* the lookup answered
      found |-> FALSE,        \* existing is not None
      found_id |-> 0,         \* existing["id"]
      found_stage |-> "",     \* existing["current_stage"]
      is_new |-> FALSE, item_id |-> 0, current_stage |-> "",
      effective_stage |-> "",
      write_stage |-> "",     \* the label of the stage column in col_vals ("" for none)
      wrote |-> FALSE,        \* the create or update mutation was sent
      stored_after |-> "",    \* the stage of the item right after that mutation
      ops |-> <<>> ]          \* the mutations this call sent: <<operation, item id>>

CrmStart(raw, nombre, stage, add_note) ==
    /\ Len(calls) < MaxCalls
    /\ calls' = Append(calls, NewCall(raw, nombre, stage, add_note))
    /\ UNCHANGED board
    /\ UNCHANGED notCrmVars

\* lines 465-497: the lookup answers; create or update is decided and col_vals built
CrmFind(c, outcome) ==
    /\ c \in 1..Len(calls)
    /\ calls[c].pc = "find"
    /\ LET k == calls[c]
           existing == IF outcome = "items" THEN FindItemByPhone(board, k.phone) ELSE NoItem
           is_new == IsNewItem(existing)
           current_stage == IF is_new THEN "" ELSE existing.current_stage
           effective_stage == IF k.stage # "" THEN k.stage
                              ELSE IF is_new THEN "1er Contacto" ELSE ""
       IN calls' = [calls EXCEPT ![c] =
                      IF outcome = "raise" THEN [k EXCEPT !.pc = "done"]
                      ELSE [k EXCEPT !.pc = "write", !.looked = TRUE,
                                     !.found = existing.found,
                                     !.found_id = existing.id,
                                     !.found_stage = existing.current_stage,
                                     !.is_new = is_new,
                                     !.item_id = IF is_new THEN 0 ELSE existing.id,
                                     !.current_stage = current_stage,
                                     !.effective_stage = effective_stage,
                                     !.write_stage =
                                         StageWrite(effective_stage, is_new, current_stage)]]
    /\ UNCHANGED board
    /\ UNCHANGED notCrmVars

\* lines 571 and 590-598: where the call goes once the item is written
AfterWrite(k) == IF k.is_new \/ k.add_note THEN "note" ELSE "done"

\* lines 499-536: create_item, or change_multiple_column_values on the item found
\* (col_vals always carries the dedupe phone, so the update is always sent)
CrmWrite(c) ==
    /\ c \in 1..Len(calls)
    /\ calls[c].pc = "write"
    /\ LET k == calls[c]
           b1 == IF k.is_new
                 THEN Append(board, [phone |-> k.phone, stage |-> k.write_stage,
                                     name |-> ItemName(k.nombre, k.phone), notes |-> <<>>])
                 ELSE IF k.write_stage # ""
                 THEN [board EXCEPT ![k.item_id].stage = k.write_stage]
                 ELSE board
           id == IF k.is_new THEN Len(board) + 1 ELSE k.item_id
           op == IF k.is_new THEN "create_item" ELSE "change_multiple_column_values"
       IN /\ board' = b1
          /\ calls' = [calls EXCEPT ![c] =
                         [k EXCEPT !.pc = IF ~k.is_new /\ k.nombre # "Lead sin nombre"
                                          THEN "rename" ELSE AfterWrite(k),
                                   !.item_id = id, !.wrote = TRUE,
                                   !.stored_after = b1[id].stage,
                                   !.ops = Append(@, <<op, id>>)]]
    /\ UNCHANGED notCrmVars

\* lines 538-558: change_simple_column_value on the name of the item found
CrmRename(c) ==
    /\ c \in 1..Len(calls)
    /\ calls[c].pc = "rename"
    /\ LET k == calls[c]
       IN /\ board' = [board EXCEPT ![k.item_id].name = ItemName(k.nombre, k.phone)]
          /\ calls' = [calls EXCEPT ![c] =
                         [k EXCEPT !.pc = AfterWrite(k),
                                   !.ops = Append(@, <<"change_simple_column_value",
                                                       k.item_id>>)]]
    /\ UNCHANGED notCrmVars

\* lines 572-591: the body of the note, the facts of a created item or the
\* text the caller passed
NoteBody(k) == IF k.is_new THEN "detalles" ELSE "add_note"

\* lines 570-598: create_update, the note on the item
CrmNote(c) ==
    /\ c \in 1..Len(calls)
    /\ calls[c].pc = "note"
    /\ LET k == calls[c]
       IN /\ board' = [board EXCEPT ![k.item_id].notes = Append(@, NoteBody(k))]
          /\ calls' = [calls EXCEPT ![c] =
                         [k EXCEPT !.pc = "done",
                                   !.ops = Append(@, <<"create_update", k.item_id>>)]]
    /\ UNCHANGED notCrmVars

\* the sales team closes a record on the board: TERMINAL_STAGES, line 31, names
\* two labels that no call of this service writes
StaffLabels == {"Venta Cerrada", "Venta Caida"}

CrmStaffClose(i, label) ==
    /\ i \in 1..Len(board)
    /\ board[i].stage \notin TERMINAL_STAGES
    /\ board' = [board EXCEPT ![i].stage = label]
    /\ UNCHANGED calls
    /\ UNCHANGED notCrmVars

NextCRM ==
    \/ \E raw \in RawPhones, nombre \in Nombres, stage \in CandidateStages,
          add_note \in BOOLEAN : CrmStart(raw, nombre, stage, add_note)
    \/ \E c \in 1..MaxCalls, o \in FindOutcomes : CrmFind(c, o)
    \/ \E c \in 1..MaxCalls : CrmWrite(c)
    \/ \E c \in 1..MaxCalls : CrmRename(c)
    \/ \E c \in 1..MaxCalls : CrmNote(c)
    \/ \E i \in 1..MaxCalls, label \in StaffLabels : CrmStaffClose(i, label)

SpecCRM == Init /\ [][NextCRM]_vars

(***************************************************************************)
(* Properties of the CRM layer.                                            *)
(***************************************************************************)
CallIdx == 1..Len(calls)
OpenItems(phone) == {i \in 1..Len(board) : board[i].phone = phone
                                            /\ board[i].stage \notin TERMINAL_STAGES}

\* C3: the board never holds two non-terminal records of one normalized phone, and
\* a call creates a record only when its lookup found none or found the newest one
\* in a terminal stage.
C3_OneOpenRecord ==
    /\ \A c \in CallIdx : Cardinality(OpenItems(calls[c].phone)) <= 1
    /\ \A c \in CallIdx :
          (calls[c].wrote /\ calls[c].is_new)
          => (~calls[c].found \/ calls[c].found_stage \in TERMINAL_STAGES)

CallStepped(c) == c \in 1..Len(calls) /\ calls'[c] # calls[c]

\* the lookup of call c returned a newest record in a terminal stage
FoundTerminal(c) ==
    calls[c].looked /\ calls[c].found /\ calls[c].found_stage \in TERMINAL_STAGES

\* the stage argument of the call, '1er Contacto' when the caller passed none
CandidateStage(k) == IF k.stage # "" THEN k.stage ELSE "1er Contacto"

\* C14: every step of a call whose lookup found the newest record of the phone in
\* a terminal stage leaves that record as it was; the mutation the call sends is a
\* create_item whose new record carries the candidate's stage, and none of its
\* mutations (column update, rename, note) names the terminal record.
C14_TerminalStartsNewRecord ==
    [][\A c \in 1..MaxCalls :
          (CallStepped(c) /\ FoundTerminal(c))
          => LET k == calls'[c]
             IN /\ board'[k.found_id] = board[k.found_id]
                /\ k.is_new
                /\ k.ops # <<>> => /\ k.ops[1][1] = "create_item"
                                   /\ k.item_id # k.found_id
                                   /\ k.stored_after = CandidateStage(k)
                /\ \A n \in 1..Len(k.ops) : k.ops[n][2] # k.found_id]_vars

\* C14 witness: a record closed as 'Venta Cerrada' was found by a call that then
\* created a second record of the phone and put its note there
C14_Witness ==
    \E c \in CallIdx :
        /\ calls[c].looked /\ calls[c].found /\ calls[c].found_stage = "Venta Cerrada"
        /\ calls[c].pc = "done" /\ Len(calls[c].ops) = 2
        /\ board[calls[c].found_id].stage = "Venta Cerrada"
        /\ board[calls[c].item_id].phone = board[calls[c].found_id].phone
        /\ board[calls[c].item_id].notes = <<"detalles">>

\* the notes call k put on the record it reached
NotesSent(k) == {n \in 1..Len(k.ops) : k.ops[n] = <<"create_update", k.item_id>>}

\* C15: every finished call that reached a record, by creating it or by updating
\* the one it found, appended exactly one note to that record.
C15_OneNotePerCall ==
    \A c \in CallIdx :
        (calls[c].pc = "done" /\ calls[c].wrote)
        => Cardinality(NotesSent(calls[c])) = 1

(***************************************************************************)
(* SpecGraphql: monday_service.py, MondayService._graphql.  One step is    *)
(* one POST of the request and what the loop does with its answer.         *)
(***************************************************************************)

\* what one POST may end with: the status of the response and whether its body
\* parses as JSON, or an exception of httpx
HttpAnswers ==
    [kind : {"response"}, status : {200, 429, 500, 503}, json : BOOLEAN]
        \cup [kind : {"TimeoutException", "RequestError"}, status : {0}, json : {FALSE}]

RECURSIVE Pow2(_)
Pow2(n) == IF n = 0 THEN 1 ELSE 2 * Pow2(n - 1)

\* lines 274 and 286: backoff = 2 ** (_attempt + 1)
Backoff(attempt) == Pow2(attempt + 1)

\* line 273 with 429 added to the statuses that are tried again
RetriedStatusWith429(status) == status >= 500 \/ status = 429

\* line 273: resp.status_code >= 500
RetriedStatus(status) == status >= 500

\* lines 261-262: the call begins, or raises at once without an API key
GqlStart(has_key) ==
    /\ gql.pc = "idle"
    /\ gql' = IF has_key THEN [gql EXCEPT !.pc = "post"]
              ELSE [gql EXCEPT !.pc = "done", !.result = "RuntimeError"]
    /\ UNCHANGED notGqlVars

\* lines 268-290: one pass of the loop
GqlPost(answer) ==
    /\ gql.pc = "post"
    /\ LET last == gql.attempt = GRAPHQL_MAX_RETRIES - 1
           again == [gql EXCEPT !.attempt = @ + 1,
                                !.log = Append(@, answer),
                                !.sleeps = Append(@, Backoff(gql.attempt))]
           ended(result) == [gql EXCEPT !.pc = "done", !.log = Append(@, answer),
                                        !.result = result]
       IN gql' =
            IF answer.kind = "response"
            THEN IF RetriedStatus(answer.status) /\ ~last THEN again
                 ELSE IF answer.json THEN ended("data")
                 ELSE ended("JSONDecodeError")
            ELSE IF ~last THEN again
            ELSE ended(answer.kind)
    /\ UNCHANGED notGqlVars

NextGraphql ==
    \/ \E has_key \in BOOLEAN : GqlStart(has_key)
    \/ \E answer \in HttpAnswers : GqlPost(answer)

SpecGraphql == Init /\ [][NextGraphql]_vars

\* the response is a rate limit or a server error
RateLimitOr5xx(answer) ==
    answer.kind = "response" /\ (answer.status = 429 \/ answer.status >= 500)

\* the request succeeded
Succeeded(answer) == answer.kind = "response" /\ answer.status = 200

\* the exponential backoff part of C16: the n-th wait lasts 2^n seconds
BackoffGrows == \A n \in 1..Len(gql.sleeps) : gql.sleeps[n] = Pow2(n)

\* C16: a request is sent at most 3 times; every 429 or 5xx answer before the
\* third is followed by a wait of 2, then 4 seconds and another send; no send
\* follows an answer that succeeded.
C16_RetryOnRateLimitAnd5xx ==
    /\ Len(gql.log) <= GRAPHQL_MAX_RETRIES
    /\ BackoffGrows
    /\ \A n \in 1..Len(gql.log) :
          /\ (RateLimitOr5xx(gql.log[n]) /\ n < GRAPHQL_MAX_RETRIES)
                => (gql.pc = "post" \/ Len(gql.log) > n) /\ Len(gql.sleeps) >= n
          /\ Succeeded(gql.log[n]) => n = Len(gql.log) /\ gql.pc = "done"

(***************************************************************************)
(* SpecLLM: conversation_logic.py, _llm_call_with_fallback and             *)
(* _llm_try_provider.  One step is one chat.completions.create request     *)
(* with the except clause that handles its outcome.                        *)
(***************************************************************************)

\* values of LLM_PRIMARY (an environment variable; "gemini" when unset)
PrimarySettings == {"gemini", "openai", "azure"}

\* lines 1488-1497: providers[0] and providers[1]
ProviderOrder(primary) ==
    IF primary = "openai" THEN <<"OpenAI", "Gemini">> ELSE <<"Gemini", "OpenAI">>

\* what one request may do: a response, or one of the exceptions of the client
RequestOutcomes ==
    { "ok", "APITimeoutError", "RateLimitError", "APIConnectionError",
      "APIStatusError5xx", "APIStatusError4xx", "Exception" }

\* TryProviderStep that retries whatever the attempt number is
TryProviderStepUnbounded(outcome, attempt, max_retries) ==
    IF outcome = "ok" THEN "return"
    ELSE IF outcome = "APIStatusError4xx" THEN "give_up"
    ELSE "retry"

\* TryProviderStep with the status errors below 500 retried like the other errors
TryProviderStepRetryAll(outcome, attempt, max_retries) ==
    IF outcome = "ok" THEN "return"
    ELSE IF attempt < max_retries - 1 THEN "retry" ELSE "give_up"

\* _llm_try_provider, lines 1449-1480: what the loop does after attempt number
\* `attempt` (from 0) ended with this outcome
TryProviderStep(outcome, attempt, max_retries) ==
    IF outcome = "ok" THEN "return"
    ELSE IF outcome \in {"APIStatusError5xx", "APIStatusError4xx"}
    THEN IF outcome = "APIStatusError5xx" /\ attempt < max_retries - 1
         THEN "retry" ELSE "give_up"
    ELSE IF attempt < max_retries - 1 THEN "retry" ELSE "give_up"

\* lines 1483-1502: the call begins with the primary provider
LlmCall(primary) ==
    /\ llm.pc = "idle"
    /\ llm' = [llm EXCEPT !.pc = "try", !.primary = primary, !.provider = 1, !.attempt = 0]
    /\ UNCHANGED notLlmVars

\* one request to the provider in turn, and what follows from its outcome
LlmAttempt(outcome) ==
    /\ llm.pc = "try"
    /\ LET label == ProviderOrder(llm.primary)[llm.provider]
           log1 == Append(llm.log, [label |-> label, outcome |-> outcome])
           step == TryProviderStep(outcome, llm.attempt, LLM_MAX_RETRIES)
       IN llm' =
            CASE step = "return" ->
                    [llm EXCEPT !.pc = "returned", !.log = log1,
                                !.result = <<label, Len(log1)>>]
              [] step = "retry" ->
                    [llm EXCEPT !.attempt = @ + 1, !.log = log1]
              [] OTHER ->
                    IF llm.provider = 1
                    THEN [llm EXCEPT !.provider = 2, !.attempt = 0, !.log = log1]
                    ELSE [llm EXCEPT !.pc = "raised", !.log = log1]
    /\ UNCHANGED notLlmVars

NextLLM ==
    \/ \E primary \in PrimarySettings : LlmCall(primary)
    \/ \E o \in RequestOutcomes : LlmAttempt(o)

SpecLLM == Init /\ [][NextLLM]_vars

(***************************************************************************)
(* Properties of the LLM call.                                             *)
(***************************************************************************)
LogIdx == 1..Len(llm.log)
Invocations(label) == {i \in LogIdx : llm.log[i].label = label}
PrimaryLabel == ProviderOrder(llm.primary)[1]
SecondaryLabel == ProviderOrder(llm.primary)[2]

\* C9: in one _llm_call_with_fallback call each provider is invoked at most twice and
\* there are at most 4 invocations; the secondary is invoked only after the primary
\* was tried and every attempt of it failed; no invocation follows a success and the
\* successful response is the one returned; the exhausted-providers error is raised
\* exactly when the call ended with both providers tried and every attempt failed.
C9_Failover ==
    /\ llm.pc # "idle" =>
          /\ Cardinality(Invocations(PrimaryLabel)) <= 2
          /\ Cardinality(Invocations(SecondaryLabel)) <= 2
          /\ Len(llm.log) <= 4
          /\ \A i \in LogIdx : llm.log[i].label \in {PrimaryLabel, SecondaryLabel}
          /\ \A i \in Invocations(SecondaryLabel) :
                /\ \E j \in Invocations(PrimaryLabel) : j < i
                /\ \A j \in Invocations(PrimaryLabel) : j < i /\ llm.log[j].outcome # "ok"
          /\ \A i \in LogIdx : llm.log[i].outcome = "ok" => i = Len(llm.log)
    /\ llm.pc = "returned" <=>
          /\ llm.log # <<>>
          /\ llm.log[Len(llm.log)].outcome = "ok"
    /\ llm.pc = "returned" => llm.result = <<llm.log[Len(llm.log)].label, Len(llm.log)>>
    /\ llm.pc = "raised" =>
          /\ \A i \in LogIdx : llm.log[i].outcome # "ok"
          /\ Invocations(PrimaryLabel) # {} /\ Invocations(SecondaryLabel) # {}
    /\ llm.pc = "try" =>
          /\ \A i \in LogIdx : llm.log[i].outcome # "ok"
          /\ Len(llm.log) < 4

\* C9 witness: the primary failed twice, the secondary failed once and then answered
C9_Witness ==
    /\ llm.pc = "returned"
    /\ Len(llm.log) = 4
    /\ Cardinality(Invocations(PrimaryLabel)) = 2
    /\ llm.result = <<SecondaryLabel, 4>>

(***************************************************************************)
(* SpecHM: conversation_logic.py, handle_message, turn after turn of one   *)
(* session.  Texts are strings; the helpers below are the str and re       *)
(* operations the code applies to them.                                    *)
(***************************************************************************)
UpperChars == "ABCDEFGHIJKLMNOPQRSTUVWXYZ"
LowerChars == "abcdefghijklmnopqrstuvwxyz"
AccentChars == {"ñ", "á", "é", "í", "ó", "ú", "ü"}

CharAt(s, i) == SubSeq(s, i, i)

IndexIn(c, alphabet) ==
    IF \E i \in 1..Len(alphabet) : CharAt(alphabet, i) = c
    THEN CHOOSE i \in 1..Len(alphabet) : CharAt(alphabet, i) = c
    ELSE 0

LowerChar(c) ==
    IF IndexIn(c, UpperChars) > 0 THEN CharAt(LowerChars, IndexIn(c, UpperChars)) ELSE c
UpperChar(c) ==
    IF IndexIn(c, LowerChars) > 0 THEN CharAt(UpperChars, IndexIn(c, LowerChars)) ELSE c

\* str.lower
RECURSIVE Lower(_)
Lower(s) == IF s = "" THEN "" ELSE LowerChar(CharAt(s, 1)) \o Lower(SubSeq(s, 2, Len(s)))

\* str.capitalize
Capitalize(w) ==
    IF w = "" THEN "" ELSE UpperChar(CharAt(w, 1)) \o Lower(SubSeq(w, 2, Len(w)))

IsAlphaChar(c) ==
    IndexIn(c, UpperChars) > 0 \/ IndexIn(c, LowerChars) > 0 \/ c \in AccentChars
\* \w of re
IsWordChar(c) == IsAlphaChar(c) \/ c \in DigitChars \/ c = "_"

\* sub in s
Contains(s, sub) ==
    \E i \in 1..(Len(s) - Len(sub) + 1) : SubSeq(s, i, i + Len(sub) - 1) = sub
ContainsAny(s, subs) == \E sub \in subs : Contains(s, sub)

\* re.search(r"\b" + w + r"\b", s) matches at position i
WordAt(s, w, i) ==
    /\ i >= 1
    /\ i + Len(w) - 1 <= Len(s)
    /\ SubSeq(s, i, i + Len(w) - 1) = w
    /\ (i = 1 \/ ~IsWordChar(CharAt(s, i - 1)))
    /\ (i + Len(w) - 1 = Len(s) \/ ~IsWordChar(CharAt(s, i + Len(w))))
ContainsWord(s, w) == \E i \in 1..Len(s) : WordAt(s, w, i)

\* re.sub(r"\b" + w + r"\b", rep, s)
RECURSIVE ReplaceWord(_, _, _)
ReplaceWord(s, w, rep) ==
    IF ~ContainsWord(s, w) THEN s
    ELSE LET i == CHOOSE i \in 1..Len(s) :
                     WordAt(s, w, i) /\ \A j \in 1..(i - 1) : ~WordAt(s, w, j)
         IN SubSeq(s, 1, i - 1) \o rep \o ReplaceWord(SubSeq(s, i + Len(w), Len(s)), w, rep)

\* the non-empty pieces of s between occurrences of the character c
RECURSIVE SplitChar(_, _)
SplitChar(s, c) ==
    IF s = "" THEN <<>>
    ELSE IF CharAt(s, 1) = c THEN SplitChar(SubSeq(s, 2, Len(s)), c)
    ELSE LET n == IF \E i \in 1..Len(s) : CharAt(s, i) = c
                  THEN (CHOOSE i \in 1..Len(s) :
                            CharAt(s, i) = c /\ \A j \in 1..(i - 1) : CharAt(s, j) # c) - 1
                  ELSE Len(s)
         IN <<SubSeq(s, 1, n)>> \o SplitChar(SubSeq(s, n + 1, Len(s)), c)

\* str.split on blanks
Split(s) == SplitChar(s, " ")

\* str.replace(sub, rep)
RECURSIVE ReplaceAll(_, _, _)
ReplaceAll(s, sub, rep) ==
    IF ~Contains(s, sub) THEN s
    ELSE LET i == CHOOSE i \in 1..Len(s) :
                     /\ SubSeq(s, i, i + Len(sub) - 1) = sub
                     /\ \A j \in 1..(i - 1) : SubSeq(s, j, j + Len(sub) - 1) # sub
         IN SubSeq(s, 1, i - 1) \o rep \o ReplaceAll(SubSeq(s, i + Len(sub), Len(s)), sub, rep)

\* re.sub(pat, rep, s, flags=re.IGNORECASE) for a pattern that is a plain lower-case text
RECURSIVE ReplaceAllIgnoreCase(_, _, _)
ReplaceAllIgnoreCase(s, pat, rep) ==
    IF ~Contains(Lower(s), pat) THEN s
    ELSE LET i == CHOOSE i \in 1..Len(s) :
                     /\ Lower(SubSeq(s, i, i + Len(pat) - 1)) = pat
                     /\ \A j \in 1..(i - 1) : Lower(SubSeq(s, j, j + Len(pat) - 1)) # pat
         IN SubSeq(s, 1, i - 1) \o rep
               \o ReplaceAllIgnoreCase(SubSeq(s, i + Len(pat), Len(s)), pat, rep)

StartsWith(s, prefix) == Len(s) >= Len(prefix) /\ SubSeq(s, 1, Len(prefix)) = prefix

\* " ".join
RECURSIVE Join(_)
Join(ws) ==
    IF ws = <<>> THEN ""
    ELSE IF Len(ws) = 1 THEN ws[1]
    ELSE ws[1] \o " " \o Join(Tail(ws))

\* str.strip of blanks
Strip(s) == Join(Split(s))

IsAlphaWord(w) == w # "" /\ \A i \in 1..Len(w) : IsAlphaChar(CharAt(w, i))

\* _normalize_spanish, lines 923-927 and 931-966: the typo and alias rewrites, in order
SpanishAliases ==
    << <<"tunlan", "tunland">>, <<"tunlad", "tunland">>, <<"tunlnad", "tunland">>,
       <<"cascadía", "cascadia">>, <<"caskadia", "cascadia">>,
       <<"la e5", "tunland e5">>, <<"el e5", "tunland e5">>,
       <<"la g7", "tunland g7">>, <<"el g7", "tunland g7">>,
       <<"la g9", "tunland g9">>, <<"el g9", "tunland g9">>,
       <<"la pickup", "tunland">>, <<"la troca", "tunland">>,
       <<"la camioneta", "tunland">>, <<"la doble cabina", "tunland">>,
       <<"la van", "toano panel">>, <<"la panel", "toano panel">>,
       <<"la combi", "toano panel">>,
       <<"el camioncito", "miler">>, <<"el miler", "miler">>,
       <<"el de 3 toneladas", "miler">>, <<"el de carga", "miler">>,
       <<"el tracto", "6x4">>, <<"el tractocamion", "6x4">>, <<"el tractocamión", "6x4">>,
       <<"la esta", "6x4">>, <<"el camion grande", "6x4">>, <<"el camión grande", "6x4">>,
       <<"la cascadia", "cascadia">>, <<"el cascadia", "cascadia">> >>

RECURSIVE ApplyAliases(_, _)
ApplyAliases(t, aliases) ==
    IF aliases = <<>> THEN t
    ELSE LET t1 == ReplaceWord(t, aliases[1][1], aliases[1][2])
         IN IF t1 = "" THEN "" ELSE ApplyAliases(t1, Tail(aliases))

\* _normalize_spanish (the brand typos of lines 916-920 rewrite words no text of the
\* vocabulary holds)
NormalizeSpanish(text) == ApplyAliases(Lower(text), SpanishAliases)

\* _extract_name_from_text: words that are no names
NameBad ==
    { "aqui", "aquí", "nadie", "yo", "el", "ella", "amigo", "desconocido",
      "cliente", "usuario", "quien", "quién",
      "si", "sí", "no", "bueno", "ok", "okey", "hola", "bien", "gracias",
      "vale", "perfecto", "listo", "claro", "sale", "dale",
      "que", "qué", "como", "cómo", "cuando", "cuándo", "donde", "dónde",
      "precio", "fotos", "foto", "info", "información", "informacion",
      "ubicación", "ubicacion", "costo", "interesado", "interesada",
      "cotización", "cotizacion", "modelo", "camioneta", "camion", "camión",
      "credito", "crédito", "contado", "financiamiento",
      "quiero", "necesito", "busco", "tengo", "puedo", "estoy" }

NameTrailingStop ==
    { "disculpa", "disculpe", "disculpen", "perdón", "perdon", "perdona",
      "oye", "oiga", "mira", "mire",
      "quisiera", "quería", "queria", "necesito", "quiero",
      "me", "te", "se", "le", "nos",
      "en", "de", "del", "por", "para", "con",
      "una", "un", "la", "el", "lo", "las", "los",
      "favor", "pregunta", "consulta", "duda",
      "buenos", "buenas", "buen" }

\* the prefixed patterns, in order: the words of the prefix and how many more words
\* than one the group may take
NamePatterns ==
    << [prefix |-> <<"me", "llamo">>, more |-> 3],
       [prefix |-> <<"soy">>, more |-> 3],
       [prefix |-> <<"mi", "nombre", "es">>, more |-> 3],
       [prefix |-> <<"con">>, more |-> 2] >>

NameAsking ==
    { "tu nombre", "cómo te llamas", "como te llamas",
      "me compartes tu nombre", "me das tu nombre",
      "a nombre de quién", "a nombre de quien",
      "quién me busca", "quien me busca",
      "nombre del interesado", "nombre completo",
      "con quién tengo el gusto", "con quien tengo el gusto" }

NameForbiddenChars == DigitChars \cup {"?", "¿", "!", "¡"}

\* the pattern matches the words ws from word k on
NamePatternAt(ws, pat, k) ==
    /\ k + Len(pat.prefix) <= Len(ws)
    /\ \A i \in 1..Len(pat.prefix) : Lower(ws[k + i - 1]) = pat.prefix[i]
    /\ IsAlphaWord(ws[k + Len(pat.prefix)])

\* the words a group takes: alphabetic words from the first on, at most n
RECURSIVE TakeAlphaWords(_, _)
TakeAlphaWords(ws, n) ==
    IF ws = <<>> \/ n = 0 \/ ~IsAlphaWord(ws[1]) THEN <<>>
    ELSE <<ws[1]>> \o TakeAlphaWords(Tail(ws), n - 1)

RECURSIVE TrimTrailingStop(_)
TrimTrailingStop(ws) ==
    IF ws # <<>> /\ Lower(ws[Len(ws)]) \in NameTrailingStop
    THEN TrimTrailingStop(SubSeq(ws, 1, Len(ws) - 1))
    ELSE ws

CapitalizeAll(ws) == Join([i \in 1..Len(ws) |-> Capitalize(ws[i])])

\* lines 803-816: the name a matching pattern gives ("" for None)
NameFromPattern(ws, pat) ==
    LET k == CHOOSE k \in 1..Len(ws) :
                 NamePatternAt(ws, pat, k) /\ \A j \in 1..(k - 1) : ~NamePatternAt(ws, pat, j)
        start == k + Len(pat.prefix)
        words == TrimTrailingStop(TakeAlphaWords(SubSeq(ws, start, Len(ws)), pat.more + 1))
    IN IF words = <<>> THEN ""
       ELSE IF Lower(Join(words)) \in NameBad THEN ""
       ELSE CapitalizeAll(words)

\* lines 820-842: a plain reply to a bot line that asked for the name
NameFromContext(ws, last_bot_line) ==
    IF /\ ContainsAny(Lower(last_bot_line), NameAsking)
       /\ Len(ws) >= 1 /\ Len(ws) <= 4
       /\ \A i \in 1..Len(ws) :
             \A j \in 1..Len(ws[i]) : IsAlphaChar(CharAt(ws[i], j)) \/ CharAt(ws[i], j) = "."
       /\ Lower(ws[1]) \notin NameBad
    THEN CapitalizeAll(ws)
    ELSE ""

\* _extract_name_from_text(text, history); last_bot_line is the last "A:" line of
\* history ("" when there is none); "" stands for None
ExtractNameFromText(text, last_bot_line) ==
    LET t == Strip(text)
        ws == Split(t)
        hits == {p \in 1..Len(NamePatterns) :
                    \E k \in 1..Len(ws) : NamePatternAt(ws, NamePatterns[p], k)}
    IN IF t = "" THEN ""
       ELSE IF \E i \in 1..Len(t) : CharAt(t, i) \in NameForbiddenChars THEN ""
       ELSE IF hits # {}
       THEN NameFromPattern(ws, NamePatterns[CHOOSE p \in hits : \A q \in hits : p <= q])
       ELSE IF last_bot_line # "" THEN NameFromContext(ws, last_bot_line)
       ELSE ""

AppointmentDays ==
    << "lunes", "martes", "miércoles", "miercoles", "jueves", "viernes",
       "sábado", "sabado", "domingo" >>

\* d.capitalize().replace("Miercoles", "Miércoles").replace("Sabado", "Sábado")
DayLabel(d) ==
    CASE d = "miercoles" -> "Miércoles"
      [] d = "sabado" -> "Sábado"
      [] d = "miércoles" -> "Miércoles"
      [] d = "sábado" -> "Sábado"
      [] OTHER -> Capitalize(d)

\* _extract_appointment_from_text ("" for None).  The clock patterns of lines
\* 1044-1066 need digits followed by "y media", ":" or am/pm, which no text of the
\* vocabulary has.
ExtractAppointmentFromText(text) ==
    LET t == Lower(Strip(text))
        found == {i \in 1..Len(AppointmentDays) : Contains(t, AppointmentDays[i])}
        day == IF Contains(t, "mañana") THEN "Mañana"
               ELSE IF found # {}
               THEN DayLabel(AppointmentDays[CHOOSE i \in found : \A j \in found : i <= j])
               ELSE ""
        time_str ==
            IF ContainsAny(t, {"medio dia", "mediodía", "medio día"}) THEN "12:00 PM"
            ELSE IF ContainsAny(t, {"en la tarde", "por la tarde"}) THEN "(tarde)"
            ELSE IF ContainsAny(t, {"en la mañana", "por la mañana"}) THEN "(mañana)"
            ELSE IF ContainsAny(t, {"en la noche", "por la noche"}) THEN "(noche)"
            ELSE ""
    IN IF t = "" THEN ""
       ELSE IF day # "" /\ time_str # "" THEN day \o " " \o time_str
       ELSE IF day # "" THEN day
       ELSE time_str

\* _message_confirms_appointment
MessageConfirmsAppointment(text) ==
    Lower(Strip(text)) \in
        { "vale", "ok", "okey", "si", "sí", "listo", "perfecto",
          "nos vemos", "ahí nos vemos", "mañana nos vemos",
          "de acuerdo", "confirmo", "gracias", "está bien",
          "entendido", "excelente", "claro", "bien", "sale" }

LeadPlaceholders ==
    { "cliente nuevo", "desconocido", "amigo", "cliente", "nuevo lead", "usuario",
      "no proporcionado" }

\* LeadIsValid without the letter test of line 1358
LeadIsValidNoLetterTest(lead) ==
    /\ Len(Strip(lead.nombre)) >= 3
    /\ Lower(Strip(lead.nombre)) \notin LeadPlaceholders
    /\ Len(Strip(lead.interes)) >= 2
    /\ Len(Strip(lead.cita)) >= 2

\* _lead_is_valid
LeadIsValid(lead) ==
    LET nombre == Strip(lead.nombre)
        interes == Strip(lead.interes)
        cita == Strip(lead.cita)
    IN /\ nombre # "" /\ Len(nombre) >= 3
       /\ Lower(nombre) \notin LeadPlaceholders
       /\ \E i \in 1..Len(nombre) : IsAlphaChar(CharAt(nombre, i))
       /\ interes # "" /\ Len(interes) >= 2
       /\ cita # "" /\ Len(cita) >= 2

(***************************************************************************)
(* The catalog and the photos.                                             *)
(***************************************************************************)
ItemMiler == [Modelo |-> "Miler", photos |-> ""]
ItemG9 == [Modelo |-> "Tunland G9",
           photos |-> "http://p/g9a.jpg|http://p/g9b.jpg|http://p/g9c.jpg|http://p/g9d.jpg"]

\* inventory_service.items: nothing loaded, or the catalog
Inventories == { <<>>, <<ItemMiler, ItemG9>> }

\* _extract_photos_from_item
ExtractPhotosFromItem(item) ==
    SelectSeq(SplitChar(item.photos, "|"), LAMBDA u : StartsWith(Strip(u), "http"))

\* the words _extract_interest_from_messages and priority 1 of _pick_media_urls skip
InterestNoise ==
    { "foton", "freightliner", "camion", "camión",
      "esta", "este", "estos", "estas", "estan", "están",
      "gris", "azul", "rojo", "negro", "blanco", "plata", "at", "mt", "diesel" }

\* the words priority 2 of _pick_media_urls skips
PhotoNoise ==
    { "foton", "freightliner", "camion", "camión", "esta", "estan", "están",
      "gris", "azul", "rojo", "negro", "blanco", "plata", "at", "mt", "diesel" }

ModelTokens(modelo, noise) ==
    SelectSeq(Split(NormalizeSpanish(modelo)), LAMBDA t : Len(t) >= 2 /\ t \notin noise)

\* the score of a model: wmsg per token found as a word in msg, wrep per token found in rep
RECURSIVE TokenScore(_, _, _, _, _)
TokenScore(tokens, msg, rep, wmsg, wrep) ==
    IF tokens = <<>> THEN 0
    ELSE (IF ContainsWord(msg, tokens[1]) THEN wmsg ELSE 0)
         + (IF ContainsWord(rep, tokens[1]) THEN wrep ELSE 0)
         + TokenScore(Tail(tokens), msg, rep, wmsg, wrep)

\* the loop over the items that keeps the first item of the highest score
RECURSIVE BestByScore(_, _, _, _, _, _, _, _, _)
BestByScore(items, i, msg, rep, noise, wmsg, wrep, best, best_score) ==
    IF i > Len(items) THEN [item |-> best, score |-> best_score]
    ELSE LET modelo == Strip(items[i].Modelo)
             score == IF modelo = "" THEN 0
                      ELSE TokenScore(ModelTokens(modelo, noise), msg, rep, wmsg, wrep)
         IN IF score > best_score
            THEN BestByScore(items, i + 1, msg, rep, noise, wmsg, wrep, i, score)
            ELSE BestByScore(items, i + 1, msg, rep, noise, wmsg, wrep, best, best_score)

\* _extract_interest_from_messages ("" for None)
ExtractInterestFromMessages(user_message, reply, items) ==
    IF items = <<>> THEN ""
    ELSE LET b == BestByScore(items, 1, NormalizeSpanish(user_message),
                              NormalizeSpanish(reply), InterestNoise, 2, 1, 0, 0)
         IN IF b.score >= 2 THEN Strip(items[b.item].Modelo) ELSE ""

GpsKeywords ==
    { "ubicacion", "ubicación", "donde estan", "dónde están", "direccion", "dirección",
      "mapa", "donde se ubican" }
PhotoNouns == {"foto", "fotos", "imagen", "imagenes", "imágenes"}
PhotoSendVerbs ==
    { "mandame", "mándame", "pasame", "pásame", "enviame", "envíame",
      "comparteme", "compárteme" }
PhotoShowVerbs == {"enseñame", "enséñame", "muestrame", "muéstrame"}
ContextPhotoKeywords ==
    {"otra foto", "mas fotos", "más fotos", "siguiente foto", "otra imagen"}

\* re.search(r"\b(verb)\b.{0,gap}\b(noun)\b", s)
WordThenWord(s, verbs, nouns, gap) ==
    \E v \in verbs :
        /\ ContainsWord(s, v)
        /\ \E i \in 1..Len(s) :
              /\ WordAt(s, v, i)
              /\ \E n \in nouns :
                    \E j \in (i + Len(v))..(i + Len(v) + gap) : WordAt(s, n, j)

\* lines 1150-1168: an explicit request for photos
ExplicitPhotoRequest(msg) ==
    /\ \/ WordThenWord(msg, PhotoSendVerbs, PhotoNouns, 10)
       \/ WordThenWord(msg, {"ver", "quiero"}, PhotoNouns, 10)
       \/ WordThenWord(msg, PhotoShowVerbs, {"foto", "fotos"}, 10)
       \/ ContainsWord(msg, "fotos")
    /\ ~\E w \in {"esta", "esa", "la", "cual", "cuál"} : ContainsWord(msg, w \o " foto")

FirstItemWhere(items, Test(_)) ==
    IF \E i \in 1..Len(items) : Test(items[i])
    THEN CHOOSE i \in 1..Len(items) : Test(items[i]) /\ \A j \in 1..(i - 1) : ~Test(items[j])
    ELSE 0

\* lines 1187-1253: the item whose photos are meant (0 for none), given the
\* normalised interest and its tokens
PhotoTargetFor(msg, rep_norm, items, last_interest, interest_norm, toks) ==
    LET a == IF last_interest # "" /\ \E t \in 1..Len(toks) : ContainsWord(msg, toks[t])
             THEN FirstItemWhere(items, LAMBDA it :
                      \/ NormalizeSpanish(Strip(it.Modelo)) = interest_norm
                      \/ \E t \in 1..Len(toks) :
                            Contains(NormalizeSpanish(Strip(it.Modelo)), toks[t]))
             ELSE 0
        b == BestByScore(items, 1, msg, rep_norm, PhotoNoise, 3, 1, 0, 0)
        c == IF last_interest # ""
             THEN FirstItemWhere(items, LAMBDA it :
                      NormalizeSpanish(Strip(it.Modelo)) = interest_norm)
             ELSE 0
    IN IF a # 0 THEN a
       ELSE IF b.score >= 3 THEN b.item
       ELSE c

\* lines 1184-1260: step 4 of _pick_media_urls
PhotoTarget(msg, rep_norm, items, last_interest) ==
    PhotoTargetFor(msg, rep_norm, items, last_interest, NormalizeSpanish(last_interest),
                   ModelTokens(last_interest, InterestNoise))

Min(a, b) == IF a <= b THEN a ELSE b

\* lines 1274-1303 with the index left where it was
PickBatchIndexKept(msg, ctx1, urls, photo_index) ==
    IF ContainsAny(msg, {"otra", "mas", "más", "siguiente"})
    THEN [urls |-> <<urls[IF photo_index < Len(urls) THEN photo_index + 1 ELSE 1]>>,
          context |-> ctx1]
    ELSE [urls |-> SubSeq(urls, 1, Min(PhotoBatchSize, Len(urls))),
          context |-> [ctx1 EXCEPT !.photo_index = Min(PhotoBatchSize, Len(urls))]]

\* lines 1274-1303: one photo ("otra") or a batch of PhotoBatchSize, from photo_index on
PickBatch(msg, ctx1, urls, photo_index) ==
    IF ContainsAny(msg, {"otra", "mas", "más", "siguiente"})
    THEN IF photo_index < Len(urls)
         THEN [urls |-> <<urls[photo_index + 1]>>,
               context |-> [ctx1 EXCEPT !.photo_index = photo_index + 1]]
         ELSE [urls |-> <<urls[1]>>, context |-> [ctx1 EXCEPT !.photo_index = 1]]
    ELSE IF photo_index < Min(photo_index + PhotoBatchSize, Len(urls))
    THEN [urls |-> SubSeq(urls, photo_index + 1, Min(photo_index + PhotoBatchSize, Len(urls))),
          context |-> [ctx1 EXCEPT !.photo_index =
                                      Min(photo_index + PhotoBatchSize, Len(urls))]]
    ELSE [urls |-> SubSeq(urls, 1, Min(PhotoBatchSize, Len(urls))),
          context |-> [ctx1 EXCEPT !.photo_index = Min(PhotoBatchSize, Len(urls))]]

\* lines 1263-1272 without the restart: the index of the previous model is kept
PickFromItemIndexKept(msg, context, target_model_name, urls, changed) ==
    IF urls = <<>> THEN [urls |-> <<>>, context |-> context]
    ELSE PickBatch(msg,
                   IF changed THEN [context EXCEPT !.photo_model = target_model_name]
                   ELSE context,
                   urls,
                   context.photo_index)

\* lines 1263-1272: the photos of the target; a change of model restarts the index
PickFromItem(msg, context, target_model_name, urls, changed) ==
    IF urls = <<>> THEN [urls |-> <<>>, context |-> context]
    ELSE PickBatch(msg,
                   IF changed THEN [context EXCEPT !.photo_model = target_model_name]
                   ELSE context,
                   urls,
                   IF changed THEN 0 ELSE context.photo_index)

\* lines 1260-1270: no target, no photos
PickFromTarget(msg, items, context, target) ==
    IF target = 0 THEN [urls |-> <<>>, context |-> context]
    ELSE PickFromItem(msg, context, Strip(items[target].Modelo),
                      ExtractPhotosFromItem(items[target]),
                      NormalizeSpanish(Strip(items[target].Modelo))
                         # NormalizeSpanish(Strip(context.photo_model)))

\* lines 1142-1303 on the normalised message and reply
PickForRequest(msg, rep_norm, items, context) ==
    IF ContainsAny(msg, GpsKeywords) THEN [urls |-> <<>>, context |-> context]
    ELSE IF items = <<>> THEN [urls |-> <<>>, context |-> context]
    ELSE IF /\ ~ExplicitPhotoRequest(msg)
            /\ ~(Strip(context.photo_model) # "" /\ ContainsAny(msg, ContextPhotoKeywords))
    THEN [urls |-> <<>>, context |-> context]
    ELSE PickFromTarget(msg, items, context,
                        PhotoTarget(msg, rep_norm, items, Strip(context.last_interest)))

\* _pick_media_urls(user_message, reply, inventory_service, context): the urls and
\* the context as the function leaves it
PickMediaUrls(user_message, reply, items, context) ==
    PickForRequest(NormalizeSpanish(user_message), NormalizeSpanish(reply), items, context)

\* the phrases _sanitize_reply_if_photos_attached rewrites, in order
BadPhotoPhrases ==
    << "no puedo enviar fotos", "no puedo mandar fotos", "no tengo fotos",
       "no puedo enviar imagenes", "no puedo enviar imágenes",
       "no puedo mandar imagenes", "no puedo mandar imágenes",
       "soy una ia", "soy un modelo" >>

RECURSIVE RewritePhrases(_, _)
RewritePhrases(reply, phrases) ==
    IF phrases = <<>> THEN reply
    ELSE LET r1 == ReplaceAllIgnoreCase(reply, phrases[1], "Claro, aquí tienes.")
         IN IF r1 = "" THEN "" ELSE RewritePhrases(r1, Tail(phrases))

\* _sanitize_reply_if_photos_attached
SanitizeReplyIfPhotosAttached(reply, media_urls) ==
    IF media_urls = <<>> THEN reply ELSE RewritePhrases(reply, BadPhotoPhrases)

ReplyNoPhotos ==
    "Por el momento no tengo fotos de ese modelo en sistema. Un asesor te las puede compartir."

PhotoPromises ==
    { "aqui tienes", "aquí tienes",
      "te mando fotos", "te mando las fotos", "te envío fotos", "te envío las fotos",
      "te comparto fotos", "te comparto las fotos" }

\* handle_message, lines 1728-1741: a promise of photos without photos is taken back
CorrectPhotoPromise(user_message, reply, media_urls) ==
    IF /\ media_urls = <<>>
       /\ ContainsAny(Lower(user_message), {"foto", "fotos", "imagen", "imágenes", "imagenes"})
       /\ ContainsAny(Lower(reply), PhotoPromises)
    THEN ReplyNoPhotos
    ELSE reply

(***************************************************************************)
(* The financing data and the PDF requests.                                *)
(***************************************************************************)
FinancingG9 ==
    [ key |-> "tunland_g9", nombre |-> "Tunland G9", anio |-> 2025,
      pdf_ficha_tecnica |-> "http://f/ficha-g9.pdf", pdf_corrida |-> "" ]

\* data/financing.json as _load_financing_data returns it: missing, or the data
FinancingChoices == { <<>>, <<FinancingG9>> }

PdfActionVerbs ==
    { "mandame", "mándame", "mandala", "mándala", "mandamela", "mándamela",
      "pasame", "pásame", "pasala", "pásala", "pasamela", "pásamela",
      "enviame", "envíame", "enviala", "envíala", "enviamela", "envíamela",
      "comparteme", "compárteme", "compartela", "compártela",
      "dame", "dámela", "la quiero", "si la quiero", "sí la quiero",
      "quiero ver", "quiero la" }
FichaKeywordsDirect ==
    { "ficha", "fiche", "fixa", "ficah", "ficha tecnica", "ficha técnica",
      "hoja tecnica", "hoja técnica", "datos tecnicos", "datos técnicos", "specs" }
CorridaKeywordsDirect ==
    { "corrida", "corrda", "corida", "simulacion", "simulación", "tabla de pagos",
      "mensualidades pdf" }
FichaKeywordsAmbiguous == {"especificaciones", "caracteristicas", "características"}
CorridaKeywordsAmbiguous ==
    { "financiamiento", "especificaciones", "caracteristicas", "características",
      "pagos mensuales", "plan de pagos", "cuotas" }
PdfPhotoWords == {"foto", "fotos", "imagen", "imagenes", "imágenes", "video", "videos"}

MsgFicha == "Claro, te comparto la ficha tecnica en PDF."
MsgCorrida ==
    "Listo, te comparto la simulacion de financiamiento en PDF. Es ilustrativa e incluye intereses."

\* _detect_pdf_request, lines 316-377: the kind of PDF asked for ("" for none)
PdfType(msg, last_pdf_request_type) ==
    LET has_action_verb == ContainsAny(msg, PdfActionVerbs)
    IN IF ContainsAny(msg, FichaKeywordsDirect) THEN "ficha"
       ELSE IF ContainsAny(msg, CorridaKeywordsDirect) THEN "corrida"
       ELSE IF has_action_verb /\ ContainsAny(msg, FichaKeywordsAmbiguous) THEN "ficha"
       ELSE IF has_action_verb /\ ContainsAny(msg, CorridaKeywordsAmbiguous) THEN "corrida"
       ELSE IF ~ContainsAny(msg, PdfPhotoWords) /\ last_pdf_request_type # "" /\ has_action_verb
       THEN last_pdf_request_type
       ELSE ""

\* lines 395-406: the text the models are matched against
PdfInterestNorm(last_interest) ==
    Strip(ReplaceAll(ReplaceAll(ReplaceAll(ReplaceAll(Lower(last_interest),
        "foton", ""), "freightliner", ""), "diesel", ""), "4x4", ""))

\* lines 408-432: the score of one entry of the financing data
PdfScore(info, interest_norm, last_interest) ==
    LET key_tokens == Split(ReplaceAll(Lower(info.key), "_", " "))
        nombre_tokens == Split(Lower(info.nombre))
        all_tokens == {key_tokens[i] : i \in 1..Len(key_tokens)}
                         \cup {nombre_tokens[i] : i \in 1..Len(nombre_tokens)}
        hits == {t \in all_tokens :
                    Len(t) >= 2 /\ t \notin {"foton", "freightliner"} /\ Contains(interest_norm, t)}
    IN Cardinality(hits)
       + (IF Contains(interest_norm, info.anio) \/ Contains(last_interest, info.anio)
          THEN 3 ELSE 0)

\* str(n) for a natural number
RECURSIVE Str(_)
Str(n) ==
    IF n < 10 THEN CharAt("0123456789", n + 1)
    ELSE Str(n \div 10) \o CharAt("0123456789", (n % 10) + 1)

\* lines 408-445: the loop over the financing data; the entry kept (0 for none)
RECURSIVE BestPdfMatch(_, _, _, _, _, _, _)
BestPdfMatch(data, i, interest_norm, last_interest, best, best_score, best_year) ==
    IF i > Len(data) THEN best
    ELSE LET info == [data[i] EXCEPT !.anio = Str(data[i].anio)]
             score == PdfScore(info, interest_norm, last_interest)
             is_better == \/ best = 0
                          \/ score > best_score
                          \/ (score = best_score /\ data[i].anio > best_year)
         IN IF score >= 2 /\ is_better
            THEN BestPdfMatch(data, i + 1, interest_norm, last_interest, i, score, data[i].anio)
            ELSE BestPdfMatch(data, i + 1, interest_norm, last_interest,
                              best, best_score, best_year)

NoPdf == [kind |-> "none", tipo |-> "", mensaje |-> ""]

\* _detect_pdf_request: kind is "none" for None, else which of sin_modelo, sin_datos,
\* sin_pdf or pdf_url the dict carries
DetectPdfRequest(user_message, last_interest, context, data) ==
    LET msg == Lower(user_message)
        tipo == PdfType(msg, context.last_pdf_request_type)
        m == BestPdfMatch(data, 1, PdfInterestNorm(last_interest), last_interest, 0, 0, 0)
        url == IF tipo = "ficha" THEN data[m].pdf_ficha_tecnica ELSE data[m].pdf_corrida
    IN IF tipo = "" THEN NoPdf
       ELSE IF last_interest = "" THEN [kind |-> "sin_modelo", tipo |-> tipo, mensaje |-> ""]
       ELSE IF data = <<>> THEN [kind |-> "sin_datos", tipo |-> tipo, mensaje |-> ""]
       ELSE IF m = 0 THEN [kind |-> "sin_modelo", tipo |-> tipo, mensaje |-> ""]
       ELSE IF url = "" THEN [kind |-> "sin_pdf", tipo |-> tipo, mensaje |-> ""]
       ELSE [kind |-> "pdf_url", tipo |-> tipo,
             mensaje |-> IF tipo = "ficha" THEN MsgFicha ELSE MsgCorrida]

\* _detect_disinterest
DetectDisinterest(text) ==
    LET t == Strip(text)
    IN /\ text # ""
       /\ \/ t \in {"STOP", "BAJA"}
          \/ ContainsAny(Lower(t),
                { "no me interesa", "ya no quiero", "no gracias", "no, gracias", "cancela",
                  "cancelar", "ya no me interesa", "no estoy interesado", "no quiero nada",
                  "dejen de escribirme", "no me escriban", "basta" })

CreditWords == {"crédito", "credito", "financiamiento", "financiación", "mensualidades"}

\* _extract_payment_from_text ("" for None)
ExtractPaymentFromText(text) ==
    LET msg == Lower(text)
    IN IF \/ WordThenWord(msg, {"no"}, CreditWords, 15)
          \/ WordThenWord(msg, {"sin"}, CreditWords \ {"mensualidades"}, 15)
          \/ WordThenWord(msg, {"nada de"}, {"crédito", "credito", "financiamiento"}, 10)
       THEN "Contado"
       ELSE IF WordThenWord(msg, {"no", "sin"}, {"contado", "cash"}, 15) THEN "Crédito"
       ELSE IF ContainsAny(msg, {"contado", "cash", "de contado"}) THEN "Contado"
       ELSE IF ContainsAny(msg, CreditWords) THEN "Crédito"
       ELSE ""

(***************************************************************************)
(* handle_message.                                                         *)
(***************************************************************************)
ReplySilenced == "Perfecto. Modo silencio activado."
ReplyLLMFailed == "Dame un momento, estoy consultando sistema..."

\* the customer messages of the session
HmMessages ==
    { "hola", "me llamo juan", "nos vemos el lunes", "ok", "de contado",
      "mandame fotos de la g9", "mandame la ficha tecnica", "cuanto cuesta" }

\* what _llm_call_with_fallback gives: the exhausted-providers error, or a response.
\* content is the text of the response outside a fenced json block, has_json whether it
\* carries such a block, lead_event the object of the block.
LlmFailure == [ok |-> FALSE, content |-> "", has_json |-> FALSE, lead_event |-> NoLeadInfo]
LlmText(content) ==
    [ok |-> TRUE, content |-> content, has_json |-> FALSE, lead_event |-> NoLeadInfo]
LlmResponses ==
    { LlmFailure,
      LlmText("Claro, con gusto."),
      LlmText("La Tunland G9 esta disponible."),
      LlmText("Con gusto, ¿con quién tengo el gusto?"),
      LlmText("La Hilux cuesta $450,000 pesos."),
      [ok |-> TRUE, content |-> "Listo, te espero.", has_json |-> TRUE,
       lead_event |-> LeadInfo("", "", "", "")],
      [ok |-> TRUE, content |-> "Listo, queda agendado.", has_json |-> TRUE,
       lead_event |-> LeadInfo("Cliente", "Tunland G9", "Martes 10am", "Contado")],
      [ok |-> TRUE, content |-> "Perfecto, te esperamos.", has_json |-> TRUE,
       lead_event |-> LeadInfo("Pedro Ruiz", "Tunland G9", "Martes 10am", "Contado")] }

\* lines 1674-1682: the facts known are put in the empty fields of the candidate
InjectKnown(candidate, saved_name, last_interest, last_appointment, last_payment) ==
    [ some |-> TRUE,
      nombre |-> IF Strip(candidate.nombre) = "" /\ saved_name # ""
                 THEN saved_name ELSE candidate.nombre,
      interes |-> IF Strip(candidate.interes) = "" /\ last_interest # ""
                  THEN last_interest ELSE candidate.interes,
      cita |-> IF Strip(candidate.cita) = "" /\ last_appointment # ""
               THEN last_appointment ELSE candidate.cita,
      pago |-> IF Strip(candidate.pago) = "" /\ last_payment # ""
               THEN last_payment ELSE candidate.pago ]

\* JsonLead without the validity test of line 1684
JsonLeadUnchecked(llm_resp, candidate) ==
    IF llm_resp.ok /\ llm_resp.has_json THEN candidate ELSE NoLeadInfo

\* lines 1666-1688: the lead of the JSON block of the reply, if it is valid once the
\* known facts are put in
JsonLead(llm_resp, candidate) ==
    IF llm_resp.ok /\ llm_resp.has_json /\ LeadIsValid(candidate) THEN candidate
    ELSE NoLeadInfo

\* FailsafeLead that waits for a confirmation of the customer
FailsafeLeadOnConfirmation(user_message, saved_name, last_interest, last_appointment, last_payment) ==
    IF /\ MessageConfirmsAppointment(user_message)
       /\ LeadIsValid(LeadInfo(saved_name, last_interest, last_appointment, last_payment))
    THEN LeadInfo(saved_name, last_interest, last_appointment,
                  IF last_payment # "" THEN last_payment ELSE "Por definir")
    ELSE NoLeadInfo

\* lines 1748-1769: the failsafe, when the response gave no lead
FailsafeLead(user_message, saved_name, last_interest, last_appointment, last_payment) ==
    LET candidate == LeadInfo(saved_name, last_interest, last_appointment,
                              IF last_payment # "" THEN last_payment ELSE "Por definir")
    IN IF LeadIsValid(candidate) THEN candidate
       ELSE IF /\ saved_name # "" /\ last_interest # "" /\ last_appointment # ""
               /\ (MessageConfirmsAppointment(user_message) \/ Len(Strip(user_message)) <= 15)
               /\ LeadIsValid(candidate)
       THEN candidate
       ELSE NoLeadInfo

\* lines 1787-1805: the funnel stage before the PDF detection
FunnelStage(user_message, last_interest, last_appointment) ==
    IF DetectDisinterest(user_message) THEN "Sin Interes"
    ELSE IF last_appointment # "" THEN "Cita Programada"
    ELSE IF last_interest # "" THEN "Intención"
    ELSE "1er Contacto"

\* lines 1806-1848: the PDF branch and the dictionary handle_message returns
\* lines 1620-1631: the reminder to ask for the name is added to the prompt of the
\* LLM call; nothing else in handle_message reads it
NameGateKeywords ==
    { "precio", "cuanto", "cuánto", "costo", "cotización", "cotizacion", "vale",
      "cuánto cuesta", "cuanto cuesta",
      "cita", "agendar", "ir a verlo", "cuando puedo ir", "visita", "visitarlos",
      "cuando abren" }

NameGateReminder(saved_name, user_message) ==
    saved_name = "" /\ ContainsAny(Lower(user_message), NameGateKeywords)

\* HandleResult with the stage of a document put over every stage
HandleResultDocumentWins(reply1, picked, lead_info, stage0, pdf_info) ==
    [ reply |-> IF pdf_info.kind = "pdf_url" THEN pdf_info.mensaje ELSE reply1,
      new_state |-> "chatting",
      context |-> [picked.context EXCEPT
                      !.funnel_stage = IF pdf_info.kind = "pdf_url" THEN "Cotización" ELSE stage0,
                      !.last_pdf_request_type =
                          IF pdf_info.kind # "none" THEN pdf_info.tipo ELSE @],
      media_urls |-> picked.urls,
      lead_info |-> lead_info,
      pdf_kind |-> pdf_info.kind,
      funnel_stage |-> IF pdf_info.kind = "pdf_url" THEN "Cotización" ELSE stage0 ]

\* lines 1806-1848: the PDF branch and the dictionary handle_message returns
HandleResult(reply1, picked, lead_info, stage0, pdf_info) ==
    [ reply |-> IF pdf_info.kind = "pdf_url" THEN pdf_info.mensaje ELSE reply1,
      new_state |-> "chatting",
      context |-> [picked.context EXCEPT
                      !.funnel_stage =
                          IF pdf_info.kind = "pdf_url" /\ stage0 \in {"1er Contacto", "Intención"}
                          THEN "Cotización" ELSE stage0,
                      !.last_pdf_request_type =
                          IF pdf_info.kind # "none" THEN pdf_info.tipo ELSE @],
      media_urls |-> picked.urls,
      lead_info |-> lead_info,
      pdf_kind |-> pdf_info.kind,
      funnel_stage |-> IF pdf_info.kind = "pdf_url" /\ stage0 \in {"1er Contacto", "Intención"}
                       THEN "Cotización" ELSE stage0 ]

\* lines 1724-1830 once the media are picked: the reply is corrected, the failsafe
\* lead, the funnel stage and the PDF request are computed.  f holds the facts of the turn.
HandleWithMedia(user_message, financing, f, json_lead, picked) ==
    HandleResult(
        CorrectPhotoPromise(user_message,
                            SanitizeReplyIfPhotosAttached(f.reply0, picked.urls), picked.urls),
        picked,
        IF json_lead.some THEN json_lead
        ELSE FailsafeLead(user_message, f.saved_name, f.last_interest, f.last_appointment,
                          f.last_payment),
        FunnelStage(user_message, f.last_interest, f.last_appointment),
        DetectPdfRequest(user_message, f.last_interest, picked.context, financing))

\* lines 1655-1725 with the facts of the turn known: the lead of the LLM's JSON, the
\* new context and the media
HandleWithFacts(user_message, items, financing, context, llm_resp, f) ==
    HandleWithMedia(
        user_message, financing, f,
        JsonLead(llm_resp, InjectKnown(llm_resp.lead_event, f.saved_name, f.last_interest,
                                       f.last_appointment, f.last_payment)),
        PickMediaUrls(user_message, f.reply0, items,
                      [ last_bot_line |-> f.reply0,
                        user_name |-> f.saved_name, last_interest |-> f.last_interest,
                        last_appointment |-> f.last_appointment,
                        last_payment |-> f.last_payment,
                        turn_count |-> f.turn_count,
                        photo_model |-> context.photo_model,
                        photo_index |-> context.photo_index,
                        last_pdf_request_type |-> context.last_pdf_request_type,
                        funnel_stage |-> "" ]))

\* lines 1561-1577, 1662-1664 and 1696-1698: what was extracted in this turn (ex)
\* replaces what the context held; the reply is the LLM's text or the apology
HandleWithExtracted(user_message, items, financing, context, llm_resp, ex) ==
    HandleWithFacts(
        user_message, items, financing, context, llm_resp,
        [ turn_count |-> NextTurnCount(context.turn_count),
          saved_name |-> IF ex.name # "" THEN ex.name ELSE Strip(context.user_name),
          last_interest |-> IF ex.interest # "" THEN ex.interest
                            ELSE Strip(context.last_interest),
          last_appointment |-> IF ex.appt # "" THEN ex.appt
                               ELSE Strip(context.last_appointment),
          last_payment |-> IF ex.payment # "" THEN ex.payment
                           ELSE Strip(context.last_payment),
          reply0 |-> IF llm_resp.ok THEN Strip(llm_resp.content) ELSE ReplyLLMFailed ])

\* handle_message(user_message, inventory_service, state, context), with the financing
\* data and the outcome of the LLM call as further inputs.  The replies of the
\* vocabulary have no "Bot:" prefix and no markdown link, so the rewrites of lines
\* 1701-1706 and 1744 leave them as they are.
HandleMessage(user_message, items, financing, state, context, llm_resp) ==
    IF Lower(Strip(user_message)) = "/silencio"
    THEN [reply |-> ReplySilenced, new_state |-> "silent",
          context |-> [EmptyContext EXCEPT !.last_bot_line = ReplySilenced],
          media_urls |-> <<>>, lead_info |-> NoLeadInfo, pdf_kind |-> "none",
          funnel_stage |-> ""]
    ELSE IF state = "silent"
    THEN [reply |-> "", new_state |-> "silent", context |-> context,
          media_urls |-> <<>>, lead_info |-> NoLeadInfo, pdf_kind |-> "none",
          funnel_stage |-> ""]
    ELSE HandleWithExtracted(
             user_message, items, financing, context, llm_resp,
             [ name |-> ExtractNameFromText(user_message, context.last_bot_line),
               payment |-> ExtractPaymentFromText(user_message),
               appt |-> ExtractAppointmentFromText(user_message),
               interest |-> IF llm_resp.ok
                            THEN ExtractInterestFromMessages(user_message, llm_resp.content,
                                                             items)
                            ELSE "" ])

\* the service starts: the inventory and the financing data are loaded
HmLoad(items, financing) ==
    /\ ~hm.loaded
    /\ hm' = [hm EXCEPT !.loaded = TRUE, !.items = items, !.financing = financing]
    /\ UNCHANGED notHmVars

\* one turn of the session: main.py calls handle_message with the stored state and
\* context and stores what it returns
HmTurnWithin(max_turns, user_message, llm_resp) ==
    /\ hm.loaded
    /\ hm.turns < max_turns
    /\ \E r \in {HandleMessage(user_message, hm.items, hm.financing, hm.state, hm.context,
                                llm_resp)} :
          hm' = [hm EXCEPT !.turns = @ + 1, !.state = r.new_state, !.context = r.context,
                           !.last = [user_message |-> user_message, llm_ok |-> llm_resp.ok,
                                     llm_resp |-> llm_resp,
                                     reply |-> r.reply, media_urls |-> r.media_urls,
                                     lead_info |-> r.lead_info, pdf_kind |-> r.pdf_kind,
                                     funnel_stage |-> r.funnel_stage]]
    /\ UNCHANGED notHmVars

HmTurn(user_message, llm_resp) == HmTurnWithin(MaxTurns, user_message, llm_resp)

NextHM ==
    \/ \E items \in Inventories, financing \in FinancingChoices : HmLoad(items, financing)
    \/ \E m \in HmMessages, r \in LlmResponses : HmTurn(m, r)

SpecHM == Init /\ [][NextHM]_vars

(***************************************************************************)
(* SpecPhotos: the same session over more turns, the customer greeting,    *)
(* asking for photos and asking for another photo.                         *)
(***************************************************************************)
PhotoMessages == {"hola", "mandame fotos", "otra foto"}

PhotoResponses == {LlmText("Claro, con gusto."), LlmText("La Tunland G9 esta disponible.")}

NextPhotos ==
    \/ \E items \in Inventories, financing \in FinancingChoices : HmLoad(items, financing)
    \/ \E m \in PhotoMessages, r \in PhotoResponses : HmTurnWithin(MaxPhotoTurns, m, r)

SpecPhotos == Init /\ [][NextPhotos]_vars

(***************************************************************************)
(* Properties of handle_message.                                           *)
(***************************************************************************)

\* C10: a turn whose LLM call failed returns the fixed apology sentence as the reply,
\* no lead and no media.
C10_LlmFailureTurn ==
    (hm.turns > 0 /\ ~hm.last.llm_ok)
    => /\ hm.last.reply = ReplyLLMFailed
       /\ ~hm.last.lead_info.some
       /\ hm.last.media_urls = <<>>

\* the candidates of the last turn: the one of the JSON block with the known facts put
\* in, and the one the failsafe builds from the facts of the session
LastJsonCandidate ==
    InjectKnown(hm.last.llm_resp.lead_event, hm.context.user_name, hm.context.last_interest,
                hm.context.last_appointment, hm.context.last_payment)
LastHasValidJsonLead ==
    hm.last.llm_resp.ok /\ hm.last.llm_resp.has_json /\ LeadIsValid(LastJsonCandidate)
LastSessionCandidate ==
    LeadInfo(hm.context.user_name, hm.context.last_interest, hm.context.last_appointment,
             IF hm.context.last_payment # "" THEN hm.context.last_payment ELSE "Por definir")

\* C12: a lead handle_message returns is the candidate of the JSON block or the one of
\* the failsafe, and it satisfies _lead_is_valid; a turn with no valid candidate
\* returns no lead, so process_single_event makes no CRM call for it.
C12_LeadsAreValid ==
    hm.turns > 0
    => /\ hm.last.lead_info.some
             => /\ LeadIsValid(hm.last.lead_info)
                /\ hm.last.lead_info \in {LastJsonCandidate, LastSessionCandidate}
       /\ (~LastHasValidJsonLead /\ ~LeadIsValid(LastSessionCandidate))
             => ~hm.last.lead_info.some

\* C12 witness: the JSON block of the reply held a valid lead, which was returned
C12_Witness ==
    /\ hm.turns > 0
    /\ LastHasValidJsonLead
    /\ hm.last.lead_info = LastJsonCandidate
    /\ hm.last.lead_info # LastSessionCandidate

\* C13: on a turn whose reply gave no valid lead block while the name, interest and
\* appointment of the session (after this turn's extraction) satisfy _lead_is_valid,
\* handle_message returns the lead built from those facts.
C13_FailsafeLead ==
    (hm.turns > 0 /\ ~LastHasValidJsonLead /\ LeadIsValid(LastSessionCandidate))
    => hm.last.lead_info = LastSessionCandidate

\* C13 witness: the facts were complete, the reply had no JSON block, the message was
\* no confirmation, and the lead of the session facts was returned
C13_Witness ==
    /\ hm.turns > 0
    /\ hm.last.llm_resp.ok /\ ~hm.last.llm_resp.has_json
    /\ ~MessageConfirmsAppointment(hm.last.user_message)
    /\ LeadIsValid(LastSessionCandidate)
    /\ hm.last.lead_info = LastSessionCandidate

\* the model names a draft may carry, as words
ModelVocabulary == {"hilux", "tunland", "g9", "miler"}

\* the words of the model names of the catalog
CatalogWords(items) ==
    {w \in ModelVocabulary :
        \E i \in 1..Len(items) : ContainsWord(NormalizeSpanish(items[i].Modelo), w)}

\* C18: the reply of a turn without media carries no model name that the catalog
\* of the session lacks.
C18_NoAbsentModelNamed ==
    (hm.turns > 0 /\ hm.last.media_urls = <<>>)
    => \A w \in ModelVocabulary \ CatalogWords(hm.items) :
          ~ContainsWord(NormalizeSpanish(hm.last.reply), w)

\* the reply asks for the customer's name
AsksForName(reply) ==
    ContainsAny(Lower(reply), {"nombre", "con quién tengo el gusto", "como te llamas",
                               "cómo te llamas"})

\* C19: after a first turn whose message asks for a price while the session has no
\* name and the message gives none, and whose LLM call gave a draft, the reply asks
\* for the name, carries no price and no lead is returned.
C19_NameBeforePrice ==
    (/\ hm.turns = 1
     /\ hm.context.user_name = ""
     /\ hm.last.llm_ok
     /\ NameGateReminder("", hm.last.user_message))
    => /\ AsksForName(hm.last.reply)
       /\ ~Contains(hm.last.reply, "$")
       /\ ~hm.last.lead_info.some

\* the catalog item of the session that a model name stands for (0 for none)
ItemOfModel(modelo) ==
    FirstItemWhere(hm.items, LAMBDA it :
        NormalizeSpanish(Strip(it.Modelo)) = NormalizeSpanish(Strip(modelo)))

\* the photo list of that item
PhotosOfModel(modelo) ==
    IF ItemOfModel(modelo) = 0 THEN <<>> ELSE ExtractPhotosFromItem(hm.items[ItemOfModel(modelo)])

\* a turn with this message was just taken
TurnTaken(user_message) ==
    hm'.turns = hm.turns + 1 /\ hm'.last.user_message = user_message

\* a photo request in a session whose interest is locked on an item with photos and
\* that has no photo session
FirstPhotoRequest ==
    /\ TurnTaken("mandame fotos")
    /\ PhotosOfModel(hm.context.last_interest) # <<>>
    /\ hm.context.photo_model = ""

\* the first page of the item's photos is returned from cursor 0 and the photo
\* session of the item is open
FirstPageReturned ==
    LET urls == PhotosOfModel(hm.context.last_interest)
    IN /\ hm'.last.media_urls = SubSeq(urls, 1, Min(PhotoBatchSize, Len(urls)))
       /\ hm'.context.photo_model = hm.context.last_interest
       /\ hm'.context.photo_index = Min(PhotoBatchSize, Len(urls))

\* a request for another photo in an open photo session of the item of interest
AnotherPhotoRequest ==
    /\ TurnTaken("otra foto")
    /\ PhotosOfModel(hm.context.photo_model) # <<>>
    /\ ItemOfModel(hm.context.photo_model) = ItemOfModel(hm.context.last_interest)

\* the one photo at the cursor is returned and the cursor moves on by 1
NextPhotoReturned ==
    LET urls == PhotosOfModel(hm.context.photo_model)
    IN /\ hm.context.photo_index < Len(urls)
       /\ hm'.last.media_urls = <<urls[hm.context.photo_index + 1]>>
       /\ hm'.context.photo_index = hm.context.photo_index + 1
       /\ hm'.context.photo_model = hm.context.photo_model

\* the cursor is at the end of the list: the first photo is returned, the cursor is 1
PhotosStartOver ==
    LET urls == PhotosOfModel(hm.context.photo_model)
    IN /\ hm.context.photo_index >= Len(urls)
       /\ hm'.last.media_urls = <<urls[1]>>
       /\ hm'.context.photo_index = 1
       /\ hm'.context.photo_model = hm.context.photo_model

\* C20 as stated: the first photo request returns the first page from cursor 0 and
\* opens the photo session; every later request for another photo returns the one
\* photo at the cursor and moves the cursor by exactly 1.
C20_PhotoPaging ==
    [][/\ FirstPhotoRequest => FirstPageReturned
       /\ AnotherPhotoRequest => NextPhotoReturned]_vars

\* C20 with the end of the list: as above while the cursor is inside the list; a
\* request for another photo with the cursor at the end of the list returns the
\* first photo again and sets the cursor to 1.
C20_PhotoPagingStartsOver ==
    [][/\ FirstPhotoRequest => FirstPageReturned
       /\ AnotherPhotoRequest => (NextPhotoReturned \/ PhotosStartOver)]_vars

\* C20 witness: after the first page of three photos, a request for another photo
\* returned the fourth photo and left the cursor at 4
C20_Witness ==
    /\ hm.turns >= 2
    /\ hm.last.user_message = "otra foto"
    /\ hm.context.photo_model = "Tunland G9"
    /\ hm.last.media_urls = <<"http://p/g9d.jpg">>
    /\ hm.context.photo_index = PhotoBatchSize + 1

(***************************************************************************)
(* SpecLead: conversation_logic.py, _lead_is_valid on any candidate the     *)
(* JSON of the model's reply can hold.                                      *)
(***************************************************************************)

\* a JSON value of a candidate's field: a string, null, or the key missing
JsonStr(text) == [kind |-> "str", text |-> text]
JsonNull == [kind |-> "null", text |-> ""]
JsonMissing == [kind |-> "missing", text |-> ""]

\* str(lead.get(key, "")): a missing key gives "", null gives "None"
PyStr(v) == IF v.kind = "null" THEN "None" ELSE v.text

CandidateNames ==
    { JsonStr(""), JsonStr("  "), JsonStr("Al"), JsonStr("Ana"), JsonStr(" Juan Perez "),
      JsonStr("123"), JsonStr("cliente"), JsonStr("Cliente Nuevo"), JsonStr(" amigo"),
      JsonNull, JsonMissing }
CandidateInterests == { JsonStr(""), JsonStr("G"), JsonStr(" G "), JsonStr("G9"), JsonMissing }
CandidateAppointments == { JsonStr(""), JsonStr("L"), JsonStr("Lunes"), JsonStr(" 10 "), JsonNull }

\* what json.loads may give for "lead_event": an object, or something that is none
Candidates ==
    { [is_dict |-> TRUE, nombre |-> n, interes |-> i, cita |-> c] :
          n \in CandidateNames, i \in CandidateInterests, c \in CandidateAppointments }
    \cup { [is_dict |-> FALSE, nombre |-> JsonMissing, interes |-> JsonMissing,
            cita |-> JsonMissing] }

\* _lead_is_valid on a candidate as json.loads gave it (lines 1344-1349)
LeadIsValidJson(c) ==
    /\ c.is_dict
    /\ LeadIsValid([nombre |-> PyStr(c.nombre), interes |-> PyStr(c.interes),
                    cita |-> PyStr(c.cita)])

\* a candidate comes up
LeadPick(c) ==
    /\ ~lead_check.picked
    /\ lead_check' = [picked |-> TRUE, candidate |-> c, results |-> <<>>]
    /\ UNCHANGED notLeadVars

\* _lead_is_valid(candidate) is called; the function assigns nothing to the candidate
LeadCall ==
    /\ lead_check.picked
    /\ Len(lead_check.results) < MaxLeadCalls
    /\ lead_check' = [lead_check EXCEPT
                         !.results = Append(@, LeadIsValidJson(lead_check.candidate))]
    /\ UNCHANGED notLeadVars

NextLead ==
    \/ \E c \in Candidates : LeadPick(c)
    \/ LeadCall

SpecLead == Init /\ [][NextLead]_vars

\* the trimmed text of a field of the candidate under check
TrimmedField(v) == Strip(PyStr(v))
HasLetter(text) == \E i \in 1..Len(text) : IsAlphaChar(CharAt(text, i))

\* what C11 lists as making a candidate invalid
C11_Rejected(c) ==
    \/ Len(TrimmedField(c.nombre)) < 3
    \/ Lower(TrimmedField(c.nombre)) \in LeadPlaceholders
    \/ Len(TrimmedField(c.interes)) < 2
    \/ Len(TrimmedField(c.cita)) < 2

Fence == "~~~"

\* the objects the model may put in its block, as text
BodyLead == "{\"lead_event\": {\"nombre\": \"Ana Paz\", \"interes\": \"G9\", \"cita\": \"Lunes\"}}"
BodyPlaceholder == "{\"lead_event\": {\"nombre\": \"Cliente\", \"interes\": \"G9\", \"cita\": \"Lunes\"}}"
BodyMalformed == "{\"lead_event\": {nombre: Ana}}"
BodyEmpty == "{}"
\* a reply cut by max_tokens inside the block
BlockCut == Fence \o "json {\"lead_event\": {\"nombre\": \"Ana"

Fenced(tag, body) == Fence \o tag \o " " \o body \o " " \o Fence

\* what the reply may carry where the block goes
RawBlocks ==
    { "",
      Fenced("json", BodyLead), Fenced("JSON", BodyLead),
      Fenced("json", BodyPlaceholder), Fenced("json", BodyMalformed),
      BlockCut,
      Fenced("json", BodyMalformed) \o " " \o Fenced("json", BodyEmpty) }

\* resp.choices[0].message.content: text, block, text
RawReplies ==
    { a \o b \o c : a \in {"", "Listo. ", "Bot: Listo. "}, b \in RawBlocks,
                    c \in {"", " Saludos."} }

\* json.loads of the text of a block and payload.get("lead_event"), lines 1670-1671
JsonLoads(body) ==
    CASE body = BodyLead -> [ok |-> TRUE, lead_event |-> LeadInfo("Ana Paz", "G9", "Lunes", "")]
      [] body = BodyPlaceholder -> [ok |-> TRUE, lead_event |-> LeadInfo("Cliente", "G9", "Lunes", "")]
      [] body = BodyEmpty -> [ok |-> TRUE, lead_event |-> NoLeadInfo]
      [] OTHER -> [ok |-> FALSE, lead_event |-> NoLeadInfo]

\* s[a-1:b], also when the text is shorter
Mid(s, a, b) == IF a > Len(s) \/ b < a THEN "" ELSE SubSeq(s, a, Min(b, Len(s)))

\* \s*
RECURSIVE SkipSpaces(_, _)
SkipSpaces(s, i) == IF i <= Len(s) /\ Mid(s, i, i) = " " THEN SkipSpaces(s, i + 1) ELSE i

\* the end of the object that {.*?}\s* and the closing fence find from the brace at j
\* (0 for none)
BlockEnd(s, j) ==
    LET ks == {k \in (j + 1)..Len(s) :
                  /\ Mid(s, k, k) = "}"
                  /\ Mid(s, SkipSpaces(s, k + 1), SkipSpaces(s, k + 1) + 2) = Fence}
    IN IF ks = {} THEN 0 ELSE CHOOSE k \in ks : \A o \in ks : k <= o

\* the pattern matches at position i
BlockAt(s, i) ==
    /\ Lower(Mid(s, i, i + 6)) = Fence \o "json"
    /\ Mid(s, SkipSpaces(s, i + 7), SkipSpaces(s, i + 7)) = "{"
    /\ BlockEnd(s, SkipSpaces(s, i + 7)) # 0

NoMatch == [found |-> FALSE, group0 |-> "", group1 |-> ""]

\* line 1667: re.search of the fenced json object in raw_reply, DOTALL | IGNORECASE
JsonMatch(raw) ==
    LET is == {i \in 1..Len(raw) : BlockAt(raw, i)}
    IN IF is = {} THEN NoMatch
       ELSE LET i == CHOOSE i \in is : \A o \in is : i <= o
                j == SkipSpaces(raw, i + 7)
                k == BlockEnd(raw, j)
            IN [found |-> TRUE,
                group0 |-> SubSeq(raw, i, SkipSpaces(raw, k + 1) + 2),
                group1 |-> SubSeq(raw, j, k)]

\* lines 1691 and 1694: raw_reply.replace(json_match.group(0), "").strip()
HideJson(raw, m) == IF m.found THEN StripEnds(ReplaceAll(raw, m.group0, "")) ELSE raw

\* lines 1700-1706: re.sub(r"^(Adrian|Asesor|Bot)\s*:\s*", "", reply.strip(), IGNORECASE).strip()
CleanPrefix(reply) ==
    LET r == StripEnds(reply)
        ps == {p \in {"adrian", "asesor", "bot"} :
                  /\ Lower(Mid(r, 1, Len(p))) = p
                  /\ Mid(r, SkipSpaces(r, Len(p) + 1), SkipSpaces(r, Len(p) + 1)) = ":"}
    IN IF ps = {} THEN r
       ELSE LET p == CHOOSE p \in ps : TRUE
            IN StripEnds(Mid(r, SkipSpaces(r, SkipSpaces(r, Len(p) + 1) + 1), Len(r)))

\* lines 1658-1706 on the raw reply: the response as the rest of handle_message
\* takes it, its text without the block and the prefix, its candidate if the block
\* was parsed
ParseRawReply(raw) ==
    LET m == JsonMatch(raw)
    IN [ok |-> TRUE, content |-> CleanPrefix(HideJson(raw, m)),
        has_json |-> m.found /\ JsonLoads(m.group1).ok,
        lead_event |-> IF m.found THEN JsonLoads(m.group1).lead_event ELSE NoLeadInfo]

\* the messages of the customer in these turns: they ask for no photo and no
\* document, so the reply of the turn is the text of the model after the cleaning
ReplyMessages == {"ok", "gracias"}

\* the LLM call of a first turn returns this text
ReplyTake(user_message, raw) ==
    /\ reply_check.pc = "idle"
    /\ reply_check' = [pc |-> "llm", raw |-> raw, user_message |-> user_message, reply |-> ""]
    /\ UNCHANGED notReplyVars

\* the rest of handle_message: the reply it returns
ReplyReturn ==
    /\ reply_check.pc = "llm"
    /\ \E r \in {HandleMessage(reply_check.user_message, <<ItemMiler, ItemG9>>, <<FinancingG9>>,
                                "start", EmptyContext, ParseRawReply(reply_check.raw))} :
          reply_check' = [reply_check EXCEPT !.pc = "done", !.reply = r.reply]
    /\ UNCHANGED notReplyVars

NextReply ==
    \/ \E m \in ReplyMessages, raw \in RawReplies : ReplyTake(m, raw)
    \/ ReplyReturn

SpecReply == Init /\ [][NextReply]_vars

\* the text carries a piece of a structured payload
CarriesPayload(text) == Contains(text, Fence) \/ Contains(text, "lead_event")

\* C21: the reply returned for a raw reply in which the search finds a fenced
\* json block, parsed or not, a lead or not, carries neither a fence nor a payload.
C21_JsonBlockHidden ==
    (reply_check.pc = "done" /\ JsonMatch(reply_check.raw).found)
    => ~CarriesPayload(reply_check.reply)

(***************************************************************************)
(* SpecTurnFail: main.py, process_single_event around handle_message: the  *)
(* turn returns, returns the apology after both providers failed, or       *)
(* raises; the session is written from the result either way.              *)
(***************************************************************************)
FailMessages == {"hola", "me llamo juan", "nos vemos el lunes", "de contado"}

FailResponses == {LlmFailure, LlmText("Claro, con gusto.")}

\* main.py 664-685: handle_message raises after its extraction (an exception outside
\* its own try block, such as int() of a financing entry without a year in
\* _detect_pdf_request); the result is built from the state and the context that
\* were loaded, and that is what store.upsert writes
HmTurnRaises(user_message, llm_resp) ==
    /\ hm.loaded
    /\ hm.turns < MaxTurns
    /\ Lower(Strip(user_message)) # "/silencio"
    /\ hm.state # "silent"
    /\ hm' = [hm EXCEPT !.turns = @ + 1,
                        !.last = [user_message |-> user_message, llm_ok |-> llm_resp.ok,
                                  llm_resp |-> llm_resp,
                                  reply |-> ReplyHandlerError, media_urls |-> <<>>,
                                  lead_info |-> NoLeadInfo, pdf_kind |-> "none",
                                  funnel_stage |-> ""]]
    /\ UNCHANGED notHmVars

NextTurnFail ==
    \/ \E items \in Inventories, financing \in FinancingChoices : HmLoad(items, financing)
    \/ \E m \in FailMessages, r \in FailResponses : HmTurn(m, r)
    \/ \E m \in FailMessages, r \in FailResponses : HmTurnRaises(m, r)

SpecTurnFail == Init /\ [][NextTurnFail]_vars

\* a turn was taken in this step and the extraction of handle_message ran in it
TurnExtracted == hm'.turns = hm.turns + 1 /\ hm.state # "silent"

\* the turn of this step failed: the providers were exhausted, or handle_message raised
TurnFailedLlm == TurnExtracted /\ ~hm'.last.llm_ok /\ hm'.last.reply = ReplyLLMFailed
TurnFailedRaise == TurnExtracted /\ hm'.last.reply = ReplyHandlerError

\* the context written in this step holds what the message of the turn gave
FactsWritten ==
    /\ \A n \in {ExtractNameFromText(hm'.last.user_message, hm.context.last_bot_line)} :
          n # "" => hm'.context.user_name = n
    /\ \A p \in {ExtractPaymentFromText(hm'.last.user_message)} :
          p # "" => hm'.context.last_payment = p
    /\ \A a \in {ExtractAppointmentFromText(hm'.last.user_message)} :
          a # "" => hm'.context.last_appointment = a

\* the part of C22 about exhausted providers
FactsWrittenAfterLlmFailure == [][TurnFailedLlm => FactsWritten]_vars

\* C22: a turn that fails after the extraction, by exhausted providers or by an
\* exception of handle_message, writes a session that holds the name, the payment
\* and the appointment extracted from the message of the turn.
C22_FactsWrittenOnFailure == [][(TurnFailedLlm \/ TurnFailedRaise) => FactsWritten]_vars

(***************************************************************************)
(* SpecDeadline: main.py, process_single_event from line 649 for one text  *)
(* event that passed the dedup and silence gates, as the task that         *)
(* _background_process_events runs; elapsed counts the seconds the         *)
(* conversation has waited.                                                *)
(***************************************************************************)
TaskMessages == {"hola", "ok"}

\* human_typing_delay: random.uniform(5.0, 10.0), in whole seconds
TypingDelays == 5..10

\* _LLM_TIMEOUT: the seconds after which one provider request is given up
LlmTimeoutSeconds == 30

\* the seconds _llm_call_with_fallback takes when every request times out: two
\* providers, LLM_MAX_RETRIES requests each, a sleep of 1 second between them
ExhaustedSeconds == 2 * (LLM_MAX_RETRIES * LlmTimeoutSeconds + 1)

\* the event passes the gates of lines 540-647
TaskStart(user_message) ==
    /\ turn_task.pc = "idle"
    /\ turn_task' = [TaskIdle EXCEPT !.pc = "inventory", !.user_message = user_message]
    /\ UNCHANGED notTaskVars

\* line 650: _ensure_inventory_loaded logs what the refresh raises and returns
TaskInventory(seconds) ==
    /\ turn_task.pc = "inventory"
    /\ turn_task' = [turn_task EXCEPT !.pc = "load", !.elapsed = @ + seconds]
    /\ UNCHANGED notTaskVars

\* lines 652-659: the session is read; what store.get raises leaves
\* process_single_event and is logged by _background_process_events (733-735)
TaskLoad(outcome) ==
    /\ turn_task.pc = "load"
    /\ turn_task' = [turn_task EXCEPT !.pc = IF outcome = "raise" THEN "dropped" ELSE "delay"]
    /\ UNCHANGED notTaskVars

\* line 662: the typing delay
TaskDelay(seconds) ==
    /\ turn_task.pc = "delay"
    /\ turn_task' = [turn_task EXCEPT !.pc = "handle", !.elapsed = @ + seconds]
    /\ UNCHANGED notTaskVars

\* the reply of handle_message and the seconds it took, by what happened in it
HandleOutcomes ==
    { [reply |-> ReplyLLM, seconds |-> 1],
      [reply |-> ReplyLLM, seconds |-> LlmTimeoutSeconds],
      [reply |-> ReplyLLMFailed, seconds |-> ExhaustedSeconds],
      [reply |-> ReplyHandlerError, seconds |-> 0],
      [reply |-> ReplyHandlerError, seconds |-> ExhaustedSeconds] }

\* lines 664-676: handle_message returns or raises; no deadline bounds the wait
TaskHandle(o) ==
    /\ turn_task.pc = "handle"
    /\ turn_task' = [turn_task EXCEPT !.pc = "upsert", !.reply = o.reply,
                                      !.elapsed = @ + o.seconds]
    /\ UNCHANGED notTaskVars

\* lines 678-685: store.upsert, what it raises is logged
TaskUpsert ==
    /\ turn_task.pc = "upsert"
    /\ turn_task' = [turn_task EXCEPT !.pc = "send"]
    /\ UNCHANGED notTaskVars

\* line 687: send_evolution_message(remote_jid, reply_text, media_urls)
TaskSend ==
    /\ turn_task.pc = "send"
    /\ turn_task' = [turn_task EXCEPT !.pc = "done", !.sent = turn_task.reply]
    /\ UNCHANGED notTaskVars

NextDeadline ==
    \/ \E m \in TaskMessages : TaskStart(m)
    \/ \E s \in {0, 1} : TaskInventory(s)
    \/ \E o \in {"session", "none", "raise"} : TaskLoad(o)
    \/ \E s \in TypingDelays : TaskDelay(s)
    \/ \E o \in HandleOutcomes : TaskHandle(o)
    \/ TaskUpsert
    \/ TaskSend

\* the event loop runs a task that can take a step
SpecDeadline == Init /\ [][NextDeadline]_vars /\ WF_vars(NextDeadline)

\* C23: a text event that passed the gates leads to a reply sent to the conversation.
C23_ReplyEventually == (turn_task.pc = "inventory") ~> (turn_task.sent # "")

\* the same for the events whose session was read
ReplyAfterLoad == (turn_task.pc = "delay") ~> (turn_task.sent # "")

(***************************************************************************)
(* SpecBounded: main.py, BoundedOrderedSet under a sequence of add calls.  *)
(***************************************************************************)
MaxAdds == 6
SetMaxLen == 2

\* the keys of the OrderedDict
KeysOf(s) == {s[i] : i \in 1..Len(s)}

\* what this add call is: of a key that is present, of a new key into a full set
\* (an eviction), or of a new key into a set with room
AddKind(s, key, maxlen) ==
    IF key \in KeysOf(s) THEN "present" ELSE IF Len(s) >= maxlen THEN "evict" ELSE "new"

\* bot_state.<set>.add(key)
SetAdd(key) ==
    /\ bset.adds < MaxAdds
    /\ \E d \in {BoundedAdd(bset.data, key, SetMaxLen)} :
          bset' = [data |-> d,
                   born |-> [k \in SetKeys |->
                               IF k \notin KeysOf(d) THEN 0
                               ELSE IF k \in KeysOf(bset.data) THEN bset.born[k]
                               ELSE bset.adds + 1],
                   adds |-> bset.adds + 1,
                   last_key |-> key,
                   seen |-> bset.seen \cup {AddKind(bset.data, key, SetMaxLen)}]
    /\ UNCHANGED notBsetVars

NextBounded == \E key \in SetKeys : SetAdd(key)

SpecBounded == Init /\ [][NextBounded]_vars

\* the key of the set that was inserted earliest
Earliest == CHOOSE k \in KeysOf(bset.data) : \A o \in KeysOf(bset.data) : bset.born[k] <= bset.born[o]

\* the add call of this step did what its kind asks for
AddAsClaimed ==
    CASE AddKind(bset.data, bset'.last_key, SetMaxLen) = "present" ->
            bset'.data = bset.data
      [] AddKind(bset.data, bset'.last_key, SetMaxLen) = "evict" ->
            /\ KeysOf(bset'.data) = (KeysOf(bset.data) \ {Earliest}) \cup {bset'.last_key}
            /\ Len(bset'.data) = Len(bset.data)
      [] OTHER ->
            /\ KeysOf(bset'.data) = KeysOf(bset.data) \cup {bset'.last_key}
            /\ Len(bset'.data) = Len(bset.data) + 1

\* the keys stand in the order of their insertion, the next to be evicted first
InsertionOrdered ==
    \A i, j \in 1..Len(bset.data) : i < j => bset.born[bset.data[i]] < bset.born[bset.data[j]]

\* C24: after any sequence of adds the set holds at most maxlen keys, in the order of
\* their insertion; an add of a new key to a full set evicts exactly the key inserted
\* earliest, and an add of a present key changes neither the keys nor their order.
C24_BoundedFifo ==
    /\ [](Len(bset.data) <= SetMaxLen /\ InsertionOrdered)
    /\ [][bset'.adds = bset.adds + 1 => AddAsClaimed]_vars

\* a full set has evicted a key and has seen an add of a present key
C24_Witness ==
    /\ {"evict", "present"} \subseteq bset.seen
    /\ Len(bset.data) = SetMaxLen

(***************************************************************************)
(* SpecEcho: main.py, send_evolution_message split at the await of its     *)
(* POST, and process_single_event on the fromMe event the transport        *)
(* delivers for the message (its echo), in any order with the bookkeeping. *)
(***************************************************************************)
MaxSends == 2
MaxEchoSeconds == 4

EchoJid == CHOOSE jid \in Jids : TRUE

\* the ids the transport gives to the messages of the calls
OutIds == <<"out1", "out2", "out3">>

\* what is sent: a text reply of a turn, or one photo with the reply as caption
SendChoices ==
    { [kind |-> "text", text |-> ReplyLLM], [kind |-> "text", text |-> ReplyHandlerError],
      [kind |-> "media", text |-> ReplyLLM] }

\* lines 422-438, 458 and 476: the POST is handed to the transport, which delivers the
\* message and will answer with or without key.id (has_id)
SendPost(c, has_id) ==
    /\ send_task.pc = "idle"
    /\ send_task.echo \notin {"pending"}
    /\ send_task.sends < MaxSends
    /\ send_task' = [pc |-> "posted", kind |-> c.kind, text |-> c.text,
                     id |-> OutIds[send_task.sends + 1],
                     resp_id |-> IF has_id THEN OutIds[send_task.sends + 1] ELSE "",
                     sends |-> send_task.sends + 1, echo |-> "pending", raced |-> FALSE]
    /\ UNCHANGED pipeVars
    /\ UNCHANGED notPipeSendVars

\* lines 460-472 (media) and 478-498 (text): the answer is read; a media send records
\* the message id only, a text send the id, the text and the time
SendBook ==
    /\ send_task.pc = "posted"
    /\ send_task' = [send_task EXCEPT !.pc = "idle"]
    /\ bot_sent_message_ids' = IF send_task.resp_id # ""
                               THEN bot_sent_message_ids \cup {send_task.resp_id}
                               ELSE bot_sent_message_ids
    /\ bot_sent_texts' = IF send_task.kind = "text"
                         THEN SentTextsAfter(EchoJid, send_task.text)
                         ELSE bot_sent_texts
    /\ last_bot_message_time' = IF send_task.kind = "text"
                                THEN SentTimeAfter(EchoJid, send_task.text)
                                ELSE last_bot_message_time
    /\ UNCHANGED <<now, events, gateCount, processed_message_ids, evicted, silenced_users,
                   processed_lead_ids, lead_evicted, sessions, writeLog>>
    /\ UNCHANGED notPipeSendVars

\* lines 541-589 on the echo: dedup, then _is_bot_message and _message_looks_human
EchoArrives ==
    /\ send_task.echo = "pending"
    /\ \E verdict \in {ClassifyOutbound(EchoJid, send_task.id, send_task.text)} :
          /\ send_task' = [send_task EXCEPT !.echo = verdict,
                                            !.raced = (send_task.pc = "posted")]
          /\ silenced_users' = IF verdict = "human"
                               THEN SilenceAfterHuman(silenced_users, EchoJid, now)
                               ELSE silenced_users
    /\ processed_message_ids' = DedupAfter(processed_message_ids, send_task.id)
    /\ evicted' = evicted \cup BoundedEvicts(processed_message_ids, send_task.id, DedupMaxLen)
    /\ UNCHANGED <<now, events, gateCount, bot_sent_message_ids, bot_sent_texts,
                   last_bot_message_time, processed_lead_ids, lead_evicted, sessions,
                   writeLog>>
    /\ UNCHANGED notPipeSendVars

\* a second passes
EchoTick ==
    /\ now < TickStep + MaxEchoSeconds
    /\ now' = now + 1
    /\ UNCHANGED <<events, gateCount, processed_message_ids, evicted, silenced_users,
                   bot_sent_message_ids, bot_sent_texts, last_bot_message_time,
                   processed_lead_ids, lead_evicted, sessions, writeLog>>
    /\ UNCHANGED notPipeVars

NextEcho ==
    \/ \E c \in SendChoices, has_id \in BOOLEAN : SendPost(c, has_id)
    \/ SendBook
    \/ EchoArrives
    \/ EchoTick

SpecEcho == Init /\ [][NextEcho]_vars

\* C25: the echo of a message the engine sent is taken for a message of the bot and
\* does not silence the conversation, whenever it arrives and for text and media sends.
C25_EchoIsBot ==
    /\ send_task.echo \in {"none", "pending", "bot"}
    /\ silenced_users[EchoJid] = NotSilenced

\* the same for the echoes of text sends that arrive after the bookkeeping
EchoAfterTextBookkeeping ==
    (send_task.kind = "text" /\ ~send_task.raced) => send_task.echo \in {"none", "pending", "bot"}

(***************************************************************************)
(* SpecCatalog: inventory_service.py, InventoryService.load on the object  *)
(* that every turn shares, and the reads of its items by one turn of       *)
(* handle_message around the await of the LLM call.                        *)
(***************************************************************************)
MaxCatalogTicks == 4
CatalogTickSeconds == 100
INVENTORY_REFRESH_SECONDS == 300

\* what the sheet holds when it is fetched
SheetVersions == { <<ItemMiler, ItemG9>>, <<ItemG9>>, <<ItemMiler>> }

\* InventoryService.load(force=False), lines 26-62: nothing while the items are fresh,
\* else the rows fetched replace self.items
LoadAfter(c, rows) ==
    IF c.items # <<>> /\ (c.clock - c.last_load_ts) < INVENTORY_REFRESH_SECONDS THEN c
    ELSE [c EXCEPT !.items = rows, !.last_load_ts = c.clock]

\* time passes
CatalogTick ==
    /\ catalog.clock < MaxCatalogTicks * CatalogTickSeconds
    /\ catalog' = [catalog EXCEPT !.clock = @ + CatalogTickSeconds]
    /\ UNCHANGED notCatalogVars

\* main.py 650: the turn of this conversation refreshes the inventory if it is due
TurnEnsureLoaded(rows) ==
    /\ catalog.pc = "idle"
    /\ catalog' = [LoadAfter(catalog, rows) EXCEPT !.pc = "delay", !.reads = <<>>,
                                                   !.refreshed = FALSE]
    /\ UNCHANGED notCatalogVars

\* main.py 657-665 and conversation_logic.py 1600-1612, 1656: after the typing delay
\* handle_message builds the prompt from inventory_service.items and awaits the LLM
TurnBuildPrompt ==
    /\ catalog.pc = "delay"
    /\ catalog' = [catalog EXCEPT !.pc = "llm", !.reads = Append(@, catalog.items)]
    /\ UNCHANGED notCatalogVars

\* conversation_logic.py 1662 and 1724: the LLM call returned; the interest is looked
\* up and the media are picked in inventory_service.items
TurnAfterLlm ==
    /\ catalog.pc = "llm"
    /\ catalog' = [catalog EXCEPT !.pc = "idle",
                                  !.reads = Append(Append(@, catalog.items), catalog.items)]
    /\ UNCHANGED notCatalogVars

\* main.py 650 in the turn of another conversation, while this turn is suspended
OtherTurnEnsureLoaded(rows) ==
    /\ catalog.pc \in {"delay", "llm"}
    /\ catalog' = [LoadAfter(catalog, rows) EXCEPT
                      !.refreshed = @ \/ LoadAfter(catalog, rows).last_load_ts # catalog.last_load_ts]
    /\ UNCHANGED notCatalogVars

NextCatalog ==
    \/ CatalogTick
    \/ \E rows \in SheetVersions : TurnEnsureLoaded(rows)
    \/ TurnBuildPrompt
    \/ TurnAfterLlm
    \/ \E rows \in SheetVersions : OtherTurnEnsureLoaded(rows)

SpecCatalog == Init /\ [][NextCatalog]_vars

\* C26: the catalog reads of one turn (prompt, interest, media) see one catalog.
C26_OneSnapshot ==
    \A i, j \in 1..Len(catalog.reads) : catalog.reads[i] = catalog.reads[j]

\* the same for the turns during which no other turn refreshed the inventory
OneSnapshotWithoutRefresh ==
    ~catalog.refreshed => \A i, j \in 1..Len(catalog.reads) : catalog.reads[i] = catalog.reads[j]

(***************************************************************************)
(* SpecHistory: conversation_logic.py, the history text that handle_message *)
(* puts in the context it returns, and main.py storing the context of the   *)
(* result, over the turns of one session.  The budget of 4000 characters is *)
(* scaled to HistoryBudget.                                                 *)
(***************************************************************************)
MaxHistTurns == 3
HistoryBudget == 60

HistMessages == {"hola", "me llamo juan", "mandame la ficha tecnica"}

HistResponses == {LlmFailure, LlmText("La Tunland G9 esta disponible.")}

\* str.strip: blanks and line ends
RECURSIVE PyStrip(_)
PyStrip(s) ==
    IF s = "" THEN ""
    ELSE IF SubSeq(s, 1, 1) \in {" ", "\n"} THEN PyStrip(SubSeq(s, 2, Len(s)))
    ELSE IF SubSeq(s, Len(s), Len(s)) \in {" ", "\n"} THEN PyStrip(SubSeq(s, 1, Len(s) - 1))
    ELSE s

\* s[-n:]
LastChars(s, n) == IF Len(s) <= n THEN s ELSE SubSeq(s, Len(s) - n + 1, Len(s))

\* lines 1536 and 1710: (history + f"\nC: {user_message}\nA: {reply_clean}").strip()[-4000:]
HistoryAfter(history, user_message, reply_clean) ==
    LastChars(PyStrip(PyStrip(history) \o "\nC: " \o user_message \o "\nA: " \o reply_clean),
              HistoryBudget)

\* main.py 657-685: a turn in which handle_message returns; the context of the result
\* is stored.  reply_clean of line 1710 is the text of the model after the cleaning
\* (last_bot_line of the context returned), the reply is what the turn returns
HistTurn(user_message, llm_resp) ==
    /\ hist.turns < MaxHistTurns
    /\ \E r \in {HandleMessage(user_message, <<ItemMiler, ItemG9>>, <<FinancingG9>>,
                                hist.state, hist.context, llm_resp)} :
          hist' = [history |-> HistoryAfter(hist.history, user_message,
                                            r.context.last_bot_line),
                   context |-> r.context, state |-> r.new_state,
                   turns |-> hist.turns + 1, user_message |-> user_message,
                   reply |-> r.reply, outcome |-> "returned"]
    /\ UNCHANGED notHistVars

\* main.py 664-685: a turn in which handle_message raises; the context that was
\* loaded is stored again and the fixed sentence is the reply
HistTurnRaises(user_message) ==
    /\ hist.turns < MaxHistTurns
    /\ hist' = [hist EXCEPT !.turns = @ + 1, !.user_message = user_message,
                            !.reply = ReplyHandlerError, !.outcome = "raised"]
    /\ UNCHANGED notHistVars

NextHistory ==
    \/ \E m \in HistMessages, r \in HistResponses : HistTurn(m, r)
    \/ \E m \in HistMessages : HistTurnRaises(m)

SpecHistory == Init /\ [][NextHistory]_vars

\* the history stored by the turn of this step is the tail of the history before it
\* followed by the message and the reply of the turn
HistoryExtended ==
    hist'.history = LastChars(PyStrip(PyStrip(hist.history) \o "\nC: " \o hist'.user_message
                                      \o "\nA: " \o hist'.reply), HistoryBudget)

\* C27: after every turn the stored history is the tail, within the budget, of the
\* history before it followed by the message and the reply of the turn.
C27_HistoryTail ==
    /\ [](Len(hist.history) <= HistoryBudget)
    /\ [][hist'.turns = hist.turns + 1 => HistoryExtended]_vars

\* the same for the turns that return the text of the model or the apology as it was
\* when the history was built
HistoryTailOfPlainTurns ==
    /\ [](Len(hist.history) <= HistoryBudget)
    /\ [][(/\ hist'.turns = hist.turns + 1
           /\ hist'.outcome = "returned"
           /\ hist'.reply = hist'.context.last_bot_line) => HistoryExtended]_vars

(***************************************************************************)
(* SpecFunnel: the same session over turns in which the customer may       *)
(* refuse, ask for a document or give an appointment: the funnel stage.    *)
(***************************************************************************)
MaxFunnelTurns == 3

\* utterances of disinterest: the exact words and phrases of _detect_disinterest,
\* one of them together with a request for a document
DisinterestMessages == {"STOP", "BAJA", "no gracias", "ya no quiero nada, solo mandame la ficha tecnica"}

FunnelMessages ==
    DisinterestMessages \cup {"hola", "mandame la ficha tecnica", "nos vemos el lunes"}

FunnelResponses == {LlmFailure, LlmText("La Tunland G9 esta disponible.")}

NextFunnel ==
    \/ HmLoad(<<ItemMiler, ItemG9>>, <<FinancingG9>>)
    \/ \E m \in FunnelMessages, r \in FunnelResponses : HmTurnWithin(MaxFunnelTurns, m, r)

SpecFunnel == Init /\ [][NextFunnel]_vars

\* C28: the turn of an utterance of disinterest produces and stores the stage
\* "Sin Interes", whatever interest and appointment the session holds and also when
\* a document is issued in the turn.
C28_DisinterestWins ==
    (hm.turns > 0 /\ hm.last.user_message \in DisinterestMessages)
    => /\ hm.last.funnel_stage = "Sin Interes"
       /\ hm.context.funnel_stage = "Sin Interes"

\* a refusal in a session with an appointment, answered with a document
C28_Witness ==
    /\ hm.turns > 1
    /\ hm.last.user_message \in DisinterestMessages
    /\ hm.last.pdf_kind = "pdf_url"
    /\ hm.context.last_interest # ""
    /\ hm.context.last_appointment # ""
    /\ hm.last.funnel_stage = "Sin Interes"

\* C29: over the turns of a session without an utterance of disinterest the stored
\* funnel stage does not go down in rank.
C29_StageNeverRegresses ==
    [][(/\ hm'.turns = hm.turns + 1
        /\ hm.turns > 0
        /\ hm.last.user_message \notin DisinterestMessages
        /\ hm'.last.user_message \notin DisinterestMessages)
       => StageRank(hm'.context.funnel_stage) >= StageRank(hm.context.funnel_stage)]_vars

\* the same for the stages computed from the facts alone: interest and appointment
\* are kept by the session, so a turn without a document never goes below them
StageOfFactsNeverRegresses ==
    [][(/\ hm'.turns = hm.turns + 1
        /\ hm.turns > 0
        /\ hm.last.user_message \notin DisinterestMessages
        /\ hm'.last.user_message \notin DisinterestMessages
        /\ hm.last.pdf_kind # "pdf_url")
       => StageRank(hm'.context.funnel_stage) >= StageRank(hm.context.funnel_stage)]_vars

(***************************************************************************)
(* Properties of _llm_try_provider: which errors are retried.              *)
(***************************************************************************)

\* request number i was the first one made to its provider in this call
FirstOfProvider(i) == \A j \in 1..(i - 1) : llm.log[j].label # llm.log[i].label

\* the loop went on with the same provider after request number i: the next request
\* made, or the one about to be made, is a second attempt on it
SameProviderAgain(i) ==
    IF i < Len(llm.log) THEN llm.log[i + 1].label = llm.log[i].label
    ELSE /\ llm.pc = "try"
         /\ ProviderOrder(llm.primary)[llm.provider] = llm.log[i].label
         /\ llm.attempt = 1

\* the first request to a provider ends its attempts when it fails with an error of
\* ended, and is followed by a second attempt when it fails with an error of retried
ErrorsHandled(ended, retried) ==
    \A i \in LogIdx :
        /\ llm.log[i].outcome \in ended => \A j \in LogIdx : j > i => llm.log[j].label # llm.log[i].label
        /\ (llm.log[i].outcome \in ended /\ i = Len(llm.log)) =>
              (llm.pc = "try" => ProviderOrder(llm.primary)[llm.provider] # llm.log[i].label)
        /\ (llm.log[i].outcome \in retried /\ FirstOfProvider(i)) => SameProviderAgain(i)

\* C30 as stated: every error other than a timeout, a rate limit and a 5xx status ends
\* the attempts on the provider at once; those three are retried within the budget.
C30_OnlyTransientRetried ==
    ErrorsHandled({"APIConnectionError", "APIStatusError4xx", "Exception"},
                  {"APITimeoutError", "RateLimitError", "APIStatusError5xx"})

\* C30: a status error below 500 ends the attempts on the provider at once; timeouts,
\* rate limits, connection errors, 5xx status errors and every other exception are
\* retried until the budget of 2 attempts is used.
C30_OnlyStatusErrorEnds ==
    /\ ErrorsHandled({"APIStatusError4xx"},
                     {"APITimeoutError", "RateLimitError", "APIConnectionError",
                      "APIStatusError5xx", "Exception"})
    /\ \A label \in {PrimaryLabel, SecondaryLabel} :
          Cardinality(Invocations(label)) <= LLM_MAX_RETRIES

\* a connection error was retried on the primary, and a status error below 500
\* ended the attempts on the secondary after its first request
C30_Witness ==
    /\ Len(llm.log) >= 3
    /\ llm.log[1].outcome = "APIConnectionError"
    /\ llm.log[2].label = llm.log[1].label
    /\ llm.log[3].label # llm.log[1].label
    /\ llm.log[3].outcome = "APIStatusError4xx"
    /\ llm.pc = "raised"

(***************************************************************************)
(* The order of the steps of one turn (process_single_event, 541-709),     *)
(* read from what each step leaves behind: passed and beyond (the gates),  *)
(* pc = "turn" (the session was loaded), reply (handle_message returned),  *)
(* wrote (store.upsert took effect), replies (the reply was sent) and crm  *)
(* (monday_service.create_lead was called).                                *)
(***************************************************************************)
SessionWritten(k) == ~events[k].wrote /\ events'[k].wrote
CrmUpserted(k) == ~events[k].crm /\ events'[k].crm
SessionLoaded(k) == events[k].pc = "load" /\ events'[k].pc = "turn"
ReplySent(k) == events[k].pc = "send" /\ events'[k].pc # "send"

\* C31 as stated: the gates come before the session load, the load before the
\* reply, and the session of a turn is persisted after that turn's CRM upsert:
\* when the CRM upsert of a turn is made, its session has not been written yet.
C31_SessionAfterCrm ==
    [][\A k \in 1..Len(events) :
          /\ SessionLoaded(k) => (events[k].passed /\ events[k].beyond)
          /\ CrmUpserted(k) => ~events[k].wrote]_vars

\* C31, amended: within one turn the steps happen in the order gates, session
\* load, handle_message (extraction, reply, lead validation), session write,
\* reply send, CRM upsert: the session is loaded only past the gates, it is
\* written only after the load, with the turn's reply made and not yet sent and
\* before the CRM upsert, the reply is sent before the CRM upsert, and no session
\* write of the turn follows its CRM upsert.
C31_StepOrder ==
    [][\A k \in 1..Len(events) :
          /\ SessionLoaded(k) => (events[k].passed /\ events[k].beyond)
          /\ SessionWritten(k) => /\ events[k].pc = "turn"
                                  /\ events'[k].reply # ""
                                  /\ events'[k].pc = "send"
                                  /\ ~events'[k].crm
          /\ ReplySent(k) => (events[k].reply # "" /\ ~events[k].crm)
          /\ CrmUpserted(k) => /\ events[k].pc = "lead"
                               /\ events[k].replies >= 1
                               /\ events'[k].wrote = events[k].wrote
          /\ events[k].crm => events'[k].wrote = events[k].wrote]_vars

\* C31 witness: a turn went through every step: its session was written, its
\* reply sent and its lead passed to the CRM
C31_Witness ==
    \E k \in 1..Len(events) :
        /\ events[k].pc = "done" /\ events[k].beyond
        /\ events[k].wrote /\ events[k].replies >= 1 /\ events[k].crm

(***************************************************************************)
(* SpecCrmFail: the pipeline with the failures of the services a turn      *)
(* awaits: store.get may raise (line 657, outside every try), store.upsert *)
(* may raise (caught at 684), monday_service.create_lead may raise, for    *)
(* instance when _graphql has used its retries (caught at 706).  The       *)
(* events are customer texts, delivered one or two per webhook call;       *)
(* _background_process_events (729-735) catches what process_single_event  *)
(* raises and goes on with the next event of the list.                     *)
(***************************************************************************)
FailEvents ==
    { Event(j, FALSE, i, MsgObj("conversation", TextHola)) : j \in Jids, i \in {"m1", "m2"} }

FailBatches == { <<a>> : a \in FailEvents } \cup { <<a, b>> : a \in FailEvents, b \in FailEvents }

\* how monday_service.create_lead may end
CreateLeadOutcomes == {"ok", "raised"}

\* line 657: store.get raises; the exception leaves process_single_event and is
\* logged by _background_process_events
LoadRaises(k) ==
    /\ k \in 1..Len(events)
    /\ Runnable(k)
    /\ events[k].pc = "load"
    /\ events' = [events EXCEPT ![k] = [@ EXCEPT !.pc = "done"]]
    /\ failures' = [failures EXCEPT ![k] = [@ EXCEPT !.escaped = TRUE]]
    /\ UNCHANGED <<now, gateCount, processed_message_ids, evicted, silenced_users,
                   bot_sent_message_ids, bot_sent_texts, last_bot_message_time,
                   processed_lead_ids, lead_evicted, sessions, writeLog>>
    /\ UNCHANGED notPipeFailVars

\* lines 691-707 without the try: what create_lead raises leaves process_single_event
LeadUpsertUncaught(k, outcome) ==
    /\ k \in 1..Len(events)
    /\ Runnable(k)
    /\ events[k].pc = "lead"
    /\ LET e == events[k]
           key == LeadKey(e.ev.jid, e.ev.id)
       IN
       IF BoundedContains(processed_lead_ids, key)
       THEN /\ events' = [events EXCEPT ![k] = [e EXCEPT !.pc = "done"]]
            /\ UNCHANGED <<processed_lead_ids, lead_evicted, failures>>
       ELSE /\ events' = [events EXCEPT ![k] = [e EXCEPT !.pc = "done", !.crm = TRUE]]
            /\ processed_lead_ids' = LeadIdsAfter(processed_lead_ids, key)
            /\ lead_evicted' = lead_evicted
                                 \cup BoundedEvicts(processed_lead_ids, key, LeadSetMaxLen)
            /\ failures' = [failures EXCEPT ![k] = [crm |-> outcome, escaped |-> (outcome = "raised")]]
    /\ UNCHANGED <<now, gateCount, processed_message_ids, evicted, silenced_users,
                   bot_sent_message_ids, bot_sent_texts, last_bot_message_time,
                   sessions, writeLog>>
    /\ UNCHANGED notPipeFailVars

\* lines 691-707: the lead goes to the CRM unless its key was seen; what
\* create_lead raises is caught and logged (706-707)
LeadUpsert(k, outcome) ==
    /\ k \in 1..Len(events)
    /\ Runnable(k)
    /\ events[k].pc = "lead"
    /\ LET e == events[k]
           key == LeadKey(e.ev.jid, e.ev.id)
       IN
       IF BoundedContains(processed_lead_ids, key)
       THEN /\ events' = [events EXCEPT ![k] = [e EXCEPT !.pc = "done"]]
            /\ UNCHANGED <<processed_lead_ids, lead_evicted, failures>>
       ELSE /\ events' = [events EXCEPT ![k] = [e EXCEPT !.pc = "done", !.crm = TRUE]]
            /\ processed_lead_ids' = LeadIdsAfter(processed_lead_ids, key)
            /\ lead_evicted' = lead_evicted
                                 \cup BoundedEvicts(processed_lead_ids, key, LeadSetMaxLen)
            /\ failures' = [failures EXCEPT ![k] = [@ EXCEPT !.crm = outcome]]
    /\ UNCHANGED <<now, gateCount, processed_message_ids, evicted, silenced_users,
                   bot_sent_message_ids, bot_sent_texts, last_bot_message_time,
                   sessions, writeLog>>
    /\ UNCHANGED notPipeFailVars

NextCrmFail ==
    \/ \E batch \in FailBatches : Webhook(batch)
    \/ \E k \in 1..MaxEvents : Gate(k)
    \/ \E k \in 1..MaxEvents : Load(k)
    \/ \E k \in 1..MaxEvents : LoadRaises(k)
    \/ \E k \in 1..MaxEvents, o \in TurnOutcomes, u \in UpsertOutcomes : Turn(k, o, u)
    \/ \E k \in 1..MaxEvents : Send(k)
    \/ \E k \in 1..MaxEvents, o \in CreateLeadOutcomes : LeadUpsert(k, o)

SpecCrmFail == Init /\ [][NextCrmFail]_vars

\* the CRM upsert of event k failed
CrmFailed(k) == failures[k].crm = "raised"

\* the session write of event k is in the store
SessionKept(k) ==
    /\ sessions[events[k].ev.jid].exists
    /\ \E p \in 1..Len(writeLog[events[k].ev.jid]) : writeLog[events[k].ev.jid][p] = k

\* C32: a CRM upsert that fails is not fatal: the event ends normally, no
\* exception leaves process_single_event because of it, the reply of the turn
\* was sent and its session write, when the store took it, is still in the
\* store, the step leaves sessions and outbound bookkeeping untouched, and the
\* next event of the same webhook call is not held back.
C32_CrmFailureNotFatal ==
    /\ [](\A k \in 1..Len(events) :
            CrmFailed(k) =>
               /\ events[k].pc = "done"
               /\ ~failures[k].escaped
               /\ events[k].replies >= 1
               /\ events[k].reply \in {bot_sent_texts[events[k].ev.jid][i] :
                                         i \in 1..Len(bot_sent_texts[events[k].ev.jid])}
               /\ events[k].wrote => SessionKept(k)
               /\ \A n \in 1..Len(events) :
                     (n > k /\ events[n].call = events[k].call /\ events[n].pc # "done"
                      /\ \A i \in (k + 1)..(n - 1) : events[i].pc = "done")
                     => Runnable(n))
    /\ [][\A k \in 1..Len(events) :
            (~CrmFailed(k) /\ CrmFailed(k)')
            => UNCHANGED <<sessions, writeLog, bot_sent_message_ids, bot_sent_texts,
                           last_bot_message_time>>]_vars

\* C32 witness: the CRM upsert of the first event of a webhook call failed, its
\* session write and reply stand, and the second event of the call was answered
C32_Witness ==
    \E k \in 1..Len(events), n \in 1..Len(events) :
        /\ CrmFailed(k) /\ events[k].wrote /\ events[k].replies >= 1
        /\ n > k /\ events[n].call = events[k].call
        /\ events[n].pc = "done" /\ events[n].replies >= 1 /\ events[n].wrote

(***************************************************************************)
(* SpecInterest: _extract_interest_from_messages (973-1021) called on a    *)
(* customer text, a draft reply and a catalog whose rows carry the year of *)
(* the model.                                                              *)
(***************************************************************************)
InterestMessages ==
    { "hola", "quiero la g9", "la tunland g9", "la miler", "la miler 2025", "una 2025",
      "la g9 o la miler", "estaria bien" }

InterestReplies == { "", "Claro", "La Tunland G9 es buena", "Tenemos Miler 2024" }

RowMiler == [Modelo |-> "Miler", Anio |-> "2024"]
RowG9 == [Modelo |-> "Tunland G9", Anio |-> "2025"]
RowE5 == [Modelo |-> "Tunland E5", Anio |-> "2024"]

InterestCatalogs == { <<>>, <<RowMiler, RowG9>>, <<RowG9, RowMiler>>, <<RowE5, RowG9, RowMiler>> }

\* the call is made
InterestTake(user_message, reply, items) ==
    /\ interest_check.pc = "idle"
    /\ interest_check' = [pc |-> "called", user_message |-> user_message, reply |-> reply,
                          items |-> items, result |-> ""]
    /\ UNCHANGED notInterestVars

\* the call returns
InterestReturn ==
    /\ interest_check.pc = "called"
    /\ interest_check' = [interest_check EXCEPT !.pc = "done",
                             !.result = ExtractInterestFromMessages(interest_check.user_message,
                                                                    interest_check.reply,
                                                                    interest_check.items)]
    /\ UNCHANGED notInterestVars

NextInterest ==
    \/ \E m \in InterestMessages, r \in InterestReplies, c \in InterestCatalogs : InterestTake(m, r, c)
    \/ InterestReturn

SpecInterest == Init /\ [][NextInterest]_vars

\* the tokens of a row's model found in a text
TokensFound(row, text) ==
    LET tokens == ModelTokens(Strip(row.Modelo), InterestNoise)
    IN Cardinality({ i \in 1..Len(tokens) : ContainsWord(NormalizeSpanish(text), tokens[i]) })

\* the year of the row stands as a word in the customer text or in the draft reply
YearAppears(row, user_message, reply) ==
    \/ ContainsWord(NormalizeSpanish(user_message), row.Anio)
    \/ ContainsWord(NormalizeSpanish(reply), row.Anio)

\* the score of a row: 2 per token in the customer text, 1 per token in the
\* draft reply, and year_bonus when the year of the row appears
ScoreOf(row, user_message, reply, year_bonus) ==
    2 * TokensFound(row, user_message) + TokensFound(row, reply)
    + (IF YearAppears(row, user_message, reply) THEN year_bonus ELSE 0)

\* the first row of the highest score when that score is at least 2, else no match
HighestScoring(items, user_message, reply, year_bonus) ==
    LET S(i) == ScoreOf(items[i], user_message, reply, year_bonus)
        top == { i \in 1..Len(items) : S(i) >= 2 /\ \A j \in 1..Len(items) : S(j) <= S(i) }
    IN IF top = {} THEN ""
       ELSE Strip(items[CHOOSE i \in top : \A j \in top : i <= j].Modelo)

\* C33: the call returns the first model of the highest score, the score being 2
\* per model token in the customer text, 1 per model token in the draft reply and
\* 3 more when the year of the model appears, provided that score is at least 2;
\* otherwise it returns no match.
C33_InterestScore ==
    interest_check.pc = "done"
    => interest_check.result =
          HighestScoring(interest_check.items, interest_check.user_message,
                         interest_check.reply, 3)

\* the year is never counted: the call returns the first model of the highest
\* score of tokens alone (2 per token in the customer text, 1 per token in the
\* draft reply) when that score is at least 2
InterestScoreOfTokens ==
    interest_check.pc = "done"
    => interest_check.result =
          HighestScoring(interest_check.items, interest_check.user_message,
                         interest_check.reply, 0)

(***************************************************************************)
(* SpecCursor: sessions of photo requests over a catalog of two items that *)
(* both have photos, the customer naming one item or the other or asking   *)
(* for another photo, up to MaxPhotoTurns turns.                           *)
(***************************************************************************)
ItemMilerPhotos == [Modelo |-> "Miler", photos |-> "http://p/ma.jpg|http://p/mb.jpg"]

CursorMessages == {"hola", "mandame fotos", "otra foto", "fotos de la miler", "fotos de la g9"}

\* the catalog in either order of its rows
CursorCatalogs == { <<ItemMilerPhotos, ItemG9>>, <<ItemG9, ItemMilerPhotos>> }

NextCursor ==
    \/ \E items \in CursorCatalogs : HmLoad(items, <<>>)
    \/ \E m \in CursorMessages, r \in PhotoResponses : HmTurnWithin(MaxPhotoTurns, m, r)

SpecCursor == Init /\ [][NextCursor]_vars

\* the photos of the turn just taken all come from the list of one item
FromOneList(urls, list) == \A i \in 1..Len(urls) : \E j \in 1..Len(list) : urls[i] = list[j]

MaxStoreOps == 4

\* Python values of a context and JSON values of its text
PyString(text) == [t |-> "str", v |-> text]
PyInt(digits) == [t |-> "int", v |-> digits]
PyNone == [t |-> "NoneType", v |-> ""]

\* json.dumps of a value: a string, a number or null
JsonOf(value) ==
    CASE value.t = "str" -> [kind |-> "string", text |-> value.v]
      [] value.t = "int" -> [kind |-> "number", text |-> value.v]
      [] OTHER -> [kind |-> "null", text |-> "null"]

\* json.loads of a value
PyOf(json) ==
    CASE json.kind = "string" -> [t |-> "str", v |-> json.text]
      [] json.kind = "number" -> [t |-> "int", v |-> json.text]
      [] OTHER -> [t |-> "NoneType", v |-> ""]

\* json.dumps(context, ensure_ascii=False): the members in the order of the dict
JsonDumps(context) == [i \in 1..Len(context) |-> <<context[i][1], JsonOf(context[i][2])>>]

\* json.loads(context_json or "{}")
JsonParse(context_json) ==
    [i \in 1..Len(context_json) |-> <<context_json[i][1], PyOf(context_json[i][2])>>]

\* the states and contexts given to upsert
StoreStates == {"start", "chatting"}
StoreContexts ==
    { <<>>,
      << <<"user_name", PyString("Ana")>>, <<"turn_count", PyInt("1")>> >>,
      << <<"user_name", PyNone>>, <<"turn_count", PyInt("2")>> >> }

\* the positions of the rows of a phone
RowsOf(rows, phone) == { i \in 1..Len(rows) : rows[i].phone = phone }

\* INSERT without the ON CONFLICT clause on a table without primary key: every
\* upsert adds a row
UpsertRowsInsertOnly(rows, phone, state, context, stamp) ==
    Append(rows, [phone |-> phone, state |-> state, context_json |-> JsonDumps(context),
                  updated_at |-> stamp])

\* lines 42-55: INSERT ... ON CONFLICT(phone) DO UPDATE SET state, context_json, updated_at
UpsertRows(rows, phone, state, context, stamp) ==
    IF RowsOf(rows, phone) = {}
    THEN Append(rows, [phone |-> phone, state |-> state, context_json |-> JsonDumps(context),
                       updated_at |-> stamp])
    ELSE [i \in 1..Len(rows) |->
            IF rows[i].phone = phone
            THEN [phone |-> phone, state |-> state, context_json |-> JsonDumps(context),
                  updated_at |-> stamp]
            ELSE rows[i]]

\* lines 27-40: SELECT ... WHERE phone=?, fetchone, and the context parsed
GetRow(rows, phone) ==
    IF RowsOf(rows, phone) = {}
    THEN [some |-> FALSE, state |-> "", context |-> <<>>]
    ELSE LET row == rows[CHOOSE i \in RowsOf(rows, phone) : \A j \in RowsOf(rows, phone) : i <= j]
         IN [some |-> TRUE, state |-> row.state, context |-> JsonParse(row.context_json)]

\* MemoryStore.upsert(phone, state, context)
StoreUpsert(phone, state, context) ==
    /\ mstore.ops < MaxStoreOps
    /\ mstore' = [mstore EXCEPT
                    !.rows = UpsertRows(mstore.rows, phone, state, context, mstore.ops + 1),
                    !.ops = @ + 1,
                    !.written[phone] = [some |-> TRUE, state |-> state, context |-> context],
                    !.last = [op |-> "upsert", phone |-> phone,
                              result |-> [some |-> FALSE, state |-> "", context |-> <<>>]]]
    /\ UNCHANGED notStoreVars

\* MemoryStore.get(phone)
StoreGet(phone) ==
    /\ mstore.ops < MaxStoreOps
    /\ mstore' = [mstore EXCEPT
                    !.ops = @ + 1,
                    !.last = [op |-> "get", phone |-> phone,
                              result |-> GetRow(mstore.rows, phone)]]
    /\ UNCHANGED notStoreVars

NextStore ==
    \/ \E k \in StoreKeys, s \in StoreStates, c \in StoreContexts : StoreUpsert(k, s, c)
    \/ \E k \in StoreKeys : StoreGet(k)

SpecStore == Init /\ [][NextStore]_vars

\* C35: the table holds at most one row per conversation identity; get(k) answers
\* the state and the context of the last upsert for k (None before the first);
\* an upsert for k leaves the row of k with exactly what it was given and changes
\* no row of another identity.
C35_LastWriterWins ==
    /\ [](/\ \A k \in StoreKeys : Cardinality(RowsOf(mstore.rows, k)) <= 1
          /\ mstore.last.op = "get" => mstore.last.result = mstore.written[mstore.last.phone])
    /\ [][(mstore'.ops = mstore.ops + 1 /\ mstore'.last.op = "upsert")
          => /\ GetRow(mstore'.rows, mstore'.last.phone) = mstore'.written[mstore'.last.phone]
             /\ \A k \in StoreKeys \ {mstore'.last.phone} :
                   GetRow(mstore'.rows, k) = GetRow(mstore.rows, k)]_vars

\* C35 witness: an identity was written, then the other identity, then the first
\* one again with another session, and get answered that last session
C35_Witness ==
    /\ mstore.last.op = "get"
    /\ mstore.last.result.some
    /\ mstore.last.result.state = "chatting"
    /\ mstore.last.result.context # <<>>
    /\ Len(mstore.rows) = 2
    /\ mstore.rows[1].phone = mstore.last.phone
    /\ mstore.rows[1].updated_at = 3
    /\ mstore.rows[2].updated_at = 2

(***************************************************************************)
(* What an outbound (fromMe) event and a silenced inbound event change.    *)
(***************************************************************************)
\* event k runs the head of process_single_event in this step
HeadStep(k) == events[k].gseq = 0 /\ events'[k].gseq > 0

\* the step leaves the session store, the outbound traffic and the CRM alone
NoTurnEffects ==
    UNCHANGED <<sessions, writeLog, bot_sent_message_ids, bot_sent_texts,
                last_bot_message_time, processed_lead_ids, lead_evicted, board, calls>>

\* the dedup set is as it was or has the id of the event as its newest key
IdRecorded(id) ==
    \/ processed_message_ids' = processed_message_ids
    \/ /\ id # ""
       /\ Len(processed_message_ids') >= 1
       /\ processed_message_ids'[Len(processed_message_ids')] = id

\* C36: processing an outbound (fromMe) event sends nothing, neither reads nor
\* writes the session store and writes nothing to the CRM; it ends at once, it can
\* only add its message id to the dedup set and, when the message is taken for a
\* human agent's (not recognised as the engine's own and looking human), set the
\* timed silence of its conversation; no other silence entry changes.
C36_OutboundFrame ==
    /\ [](\A k \in 1..Len(events) :
            events[k].ev.from_me
            => /\ events[k].pc \in {"gate", "done"}
               /\ events[k].replies = 0 /\ ~events[k].wrote /\ ~events[k].crm)
    /\ [][\A k \in 1..Len(events) :
            (events[k].ev.from_me /\ HeadStep(k))
            => /\ events'[k].pc = "done"
               /\ NoTurnEffects
               /\ IdRecorded(events[k].ev.id)
               /\ \A j \in Jids :
                     silenced_users'[j] # silenced_users[j]
                     => /\ j = events[k].ev.jid
                        /\ MessageLooksHuman(CmdText(k))
                        /\ ~IsBotMessage(j, events[k].ev.id, CmdText(k))
                        /\ silenced_users'[j] =
                              [kind |-> "timed", until |-> now + AUTO_REACTIVATE_MINUTES * 60]]_vars

\* C36 witness: an outbound message of a human agent was processed: its id is in
\* the dedup set, the conversation is silenced until an hour later, nothing was
\* sent or stored
C36_Witness ==
    \E k \in 1..Len(events) :
        /\ events[k].ev.from_me /\ events[k].pc = "done" /\ events[k].cls = "human"
        /\ BoundedContains(processed_message_ids, events[k].ev.id)
        /\ silenced_users[events[k].ev.jid] =
              [kind |-> "timed", until |-> events[k].gate_time + AUTO_REACTIVATE_MINUTES * 60]
        /\ sessions[events[k].ev.jid] = NoSession
        /\ bot_sent_texts[events[k].ev.jid] = <<>>

(***************************************************************************)
(* SpecSilenced: the pipeline for a conversation that a human agent's      *)
(* message silences: up to MaxSilencedEvents deliveries, one per webhook   *)
(* call, of the agent's message and of a customer text, the transport      *)
(* delivering either of them again under the id it had.                    *)
(* handle_message answers and the store takes every write.                 *)
(***************************************************************************)
MaxSilencedEvents == 4

SilencedEvents ==
    { Event(j, TRUE, "m2", MsgObj("conversation", TextHuman)) : j \in Jids }
    \cup { Event(j, FALSE, "m1", MsgObj("conversation", TextHola)) : j \in Jids }

\* evolution_webhook called with one event
DeliverSilenced(ev) ==
    /\ Len(events) < MaxSilencedEvents
    /\ events' = Append(events, NewEvent(ev, NextCall))
    /\ UNCHANGED <<now, gateCount, processed_message_ids, evicted, silenced_users,
                   bot_sent_message_ids, bot_sent_texts, last_bot_message_time,
                   processed_lead_ids, lead_evicted, sessions, writeLog>>
    /\ UNCHANGED notPipeVars

NextSilenced ==
    \/ \E ev \in SilencedEvents : DeliverSilenced(ev)
    \/ Tick
    \/ \E k \in 1..MaxSilencedEvents : Gate(k)
    \/ \E k \in 1..MaxSilencedEvents : Load(k)
    \/ \E k \in 1..MaxSilencedEvents : Turn(k, "reply", "ok")
    \/ \E k \in 1..MaxSilencedEvents : Send(k)

SpecSilenced == Init /\ [][NextSilenced]_vars

\* the inbound event k was stopped by the silence of its conversation
StoppedBySilence(k) ==
    /\ Inbound(k) /\ events[k].passed /\ ~events[k].beyond
    /\ events[k].sil_kind \in {"timed", "perm"}

\* the head of process_single_event runs for the inbound event k, which is no
\* duplicate, while its conversation is silenced
SilencedStep(k) ==
    /\ Inbound(k) /\ HeadStep(k)
    /\ ~BoundedContains(processed_message_ids, events[k].ev.id)
    /\ SilenceBlocks(silenced_users[events[k].ev.jid], now)

\* what that step does: nothing but the add of the id to the dedup set
SilencedFrame(k) ==
    /\ events'[k].pc = "done" /\ events'[k].replies = 0
    /\ NoTurnEffects
    /\ silenced_users' = silenced_users
    /\ events[k].ev.id # "" => BoundedContains(processed_message_ids', events[k].ev.id)

\* b is a delivery of the message of a that ran the head after a did
LaterDelivery(a, b) ==
    SameDelivery(a, b) /\ GateRan(b) /\ events[b].gseq > events[a].gseq

\* C37 as stated: an inbound message processed while its conversation is silenced
\* changes nothing but the dedup set, and no later delivery of that message is
\* ever answered, also after the silence has ended.
C37_SilencedNeverAnswered ==
    /\ [][\A k \in 1..Len(events) : SilencedStep(k) => SilencedFrame(k)]_vars
    /\ [](\A a \in 1..Len(events), b \in 1..Len(events) :
            (StoppedBySilence(a) /\ events[a].ev.id # "" /\ LaterDelivery(a, b))
            => (~events[b].beyond /\ events[b].replies = 0))

\* C37, amended: the same, for as long as the id of the message is held in the
\* bounded dedup set: no later delivery of the message is answered unless its id
\* was evicted from the set in between.
C37_SilencedNeverAnsweredWhileHeld ==
    /\ [][\A k \in 1..Len(events) : SilencedStep(k) => SilencedFrame(k)]_vars
    /\ [](\A a \in 1..Len(events), b \in 1..Len(events) :
            (/\ StoppedBySilence(a) /\ events[a].ev.id # ""
             /\ LaterDelivery(a, b)
             /\ events[a].ev.id \notin evicted)
            => (~events[b].passed /\ events[b].replies = 0))

\* C37 witness: a customer message was stopped by a timed silence, it was delivered
\* again after the silence had ended, its id still in the dedup set, and was dropped
C37_Witness ==
    \E a \in 1..Len(events), b \in 1..Len(events) :
        /\ StoppedBySilence(a) /\ events[a].sil_kind = "timed"
        /\ events[a].ev.id # "" /\ events[a].ev.id \notin evicted
        /\ LaterDelivery(a, b)
        /\ events[b].gate_time >= events[a].sil_until
        /\ events[b].pc = "done" /\ ~events[b].passed

(***************************************************************************)
(* SpecStage: one session from handle_message to the CRM.  After each turn *)
(* process_single_event (691-707) takes result["lead_info"] and, when      *)
(* there is one, awaits monday_service.create_lead, which is               *)
(* create_or_update_lead(lead_data, stage="Cita Programada")               *)
(* (monday_service.py 603-604); the call then runs as in SpecCRM.  The     *)
(* other keys of the result (funnel_stage, is_disinterest, funnel_data)    *)
(* are not read.                                                           *)
(***************************************************************************)
MaxStageTurns == 2

StagePhone == "5215550001"

StageMessages == {"hola", "no gracias", "mandame la ficha tecnica", "nos vemos el lunes"}

StageResponses ==
    { LlmText("La Tunland G9 esta disponible."),
      [ok |-> TRUE, content |-> "Listo, queda agendado.", has_json |-> TRUE,
       lead_event |-> LeadInfo("Pedro Ruiz", "Tunland G9", "Martes 10am", "Contado")] }

\* every create_or_update_lead call made so far has returned
CallsReturned == \A c \in 1..Len(calls) : calls[c].pc = "done"

\* handle_message for the next customer message of the session
StageTurn(user_message, llm_resp) ==
    /\ crm_turn.handled = hm.turns
    /\ CallsReturned
    /\ HmTurnWithin(MaxStageTurns, user_message, llm_resp)

\* lines 691-707 for the turn just made: the stage the CRM is called with is the
\* one create_lead fixes, whatever funnel_stage the turn returned
StageLead ==
    /\ crm_turn.handled < hm.turns
    /\ Len(calls) < MaxCalls
    /\ calls' = IF hm.last.lead_info.some
                THEN Append(calls, NewCall(StagePhone, hm.last.lead_info.nombre,
                                           "Cita Programada", FALSE))
                ELSE calls
    /\ crm_turn' = [handled |-> crm_turn.handled + 1,
                    log |-> Append(crm_turn.log,
                                   [user_message |-> hm.last.user_message,
                                    funnel_stage |-> hm.last.funnel_stage,
                                    lead |-> hm.last.lead_info.some,
                                    passed |-> IF hm.last.lead_info.some
                                               THEN "Cita Programada" ELSE "none"])]
    /\ UNCHANGED board
    /\ UNCHANGED notCrmStageVars

NextStage ==
    \/ HmLoad(<<ItemMiler, ItemG9>>, <<FinancingG9>>)
    \/ \E m \in StageMessages, r \in StageResponses : StageTurn(m, r)
    \/ StageLead
    \/ \E c \in 1..MaxCalls : CrmFind(c, "items")
    \/ \E c \in 1..MaxCalls : CrmWrite(c)
    \/ \E c \in 1..MaxCalls : CrmRename(c)
    \/ \E c \in 1..MaxCalls : CrmNote(c)

SpecStage == Init /\ [][NextStage]_vars

\* C38: for every turn whose lead step ran, the stage passed to the CRM upsert is
\* the funnel stage handle_message derived for the turn; a turn of disinterest
\* passes 'Sin Interes' and a turn that sends a document passes 'Cotización'.
C38_StagePassedToCrm ==
    \A t \in 1..Len(crm_turn.log) :
        /\ crm_turn.log[t].passed # "none"
           => crm_turn.log[t].passed = crm_turn.log[t].funnel_stage
        /\ crm_turn.log[t].funnel_stage \in {"Sin Interes", "Cotización"}
           => crm_turn.log[t].passed = crm_turn.log[t].funnel_stage

\* the CRM is called exactly for the turns that return a lead, and always with
\* the stage 'Cita Programada'
StagePassedIsAppointment ==
    \A t \in 1..Len(crm_turn.log) :
        crm_turn.log[t].passed = (IF crm_turn.log[t].lead THEN "Cita Programada" ELSE "none")

(***************************************************************************)
(* SpecFacts: one session whose turns are started by separate webhook      *)
(* calls, so that a turn can load the session while another one is between *)
(* its load and its write (main.py 739-767 starts one task per call and    *)
(* nothing is locked per conversation).  hm is the stored session,         *)
(* fact_turns the turns in flight with the state and context each loaded.  *)
(***************************************************************************)
MaxFactTurns == 3

\* the customer commands main.py answers itself
CustomerCommands == {"/silencio", "/activar"}

\* what the customer writes: a greeting, a name, a day, a way of paying, and a command
FactMessages == {"hola", "me llamo juan", "nos vemos el lunes", "de contado", "/Silencio"}

FactResponses == {LlmFailure, LlmText("La Tunland G9 esta disponible.")}

FactTaskIdle == [pc |-> "idle", user_message |-> "", state |-> "start",
                 context |-> EmptyContext]

\* main.py 630-647: a command is answered and the event ends before the session is
\* loaded; handle_message never sees it
FactsCommand(m) ==
    /\ hm.loaded
    /\ Lower(Strip(m)) \in CustomerCommands
    /\ fact_turns.commands < 1
    /\ fact_turns' = [fact_turns EXCEPT !.commands = @ + 1]
    /\ UNCHANGED hm
    /\ UNCHANGED notHmFactVars

\* main.py 609, 657-659: the text is stripped and the session of the conversation is
\* read for the turn
FactsLoad(k, m) ==
    /\ hm.loaded
    /\ fact_turns.started < MaxFactTurns
    /\ fact_turns.task[k].pc = "idle"
    /\ Lower(Strip(m)) \notin CustomerCommands
    /\ fact_turns' = [fact_turns EXCEPT
                         !.started = @ + 1,
                         !.task[k] = [pc |-> "loaded", user_message |-> Strip(m),
                                      state |-> hm.state, context |-> hm.context]]
    /\ UNCHANGED hm
    /\ UNCHANGED notHmFactVars

\* main.py 664-685: handle_message runs on what the turn loaded and store.upsert
\* writes the state and the context it returns over the stored session
FactsHandle(k, llm_resp) ==
    /\ fact_turns.task[k].pc = "loaded"
    /\ \E r \in {HandleMessage(fact_turns.task[k].user_message, hm.items, hm.financing,
                               fact_turns.task[k].state, fact_turns.task[k].context,
                               llm_resp)} :
          hm' = [hm EXCEPT !.turns = @ + 1, !.state = r.new_state, !.context = r.context,
                           !.last = [user_message |-> fact_turns.task[k].user_message,
                                     llm_ok |-> llm_resp.ok, llm_resp |-> llm_resp,
                                     reply |-> r.reply, media_urls |-> r.media_urls,
                                     lead_info |-> r.lead_info, pdf_kind |-> r.pdf_kind,
                                     funnel_stage |-> r.funnel_stage]]
    /\ fact_turns' = [fact_turns EXCEPT
                         !.task[k] = FactTaskIdle,
                         !.last = [user_message |-> fact_turns.task[k].user_message,
                                   llm_ok |-> llm_resp.ok, content |-> llm_resp.content,
                                   raised |-> FALSE]]
    /\ UNCHANGED notHmFactVars

\* main.py 666-685: handle_message raises; the state and the context the turn loaded
\* are what store.upsert writes
FactsHandleRaises(k) ==
    /\ fact_turns.task[k].pc = "loaded"
    /\ hm' = [hm EXCEPT !.turns = @ + 1, !.state = fact_turns.task[k].state,
                        !.context = fact_turns.task[k].context,
                        !.last = [user_message |-> fact_turns.task[k].user_message,
                                  llm_ok |-> FALSE, llm_resp |-> LlmFailure,
                                  reply |-> ReplyHandlerError, media_urls |-> <<>>,
                                  lead_info |-> NoLeadInfo, pdf_kind |-> "none",
                                  funnel_stage |-> ""]]
    /\ fact_turns' = [fact_turns EXCEPT
                         !.task[k] = FactTaskIdle,
                         !.last = [user_message |-> fact_turns.task[k].user_message,
                                   llm_ok |-> FALSE, content |-> "", raised |-> TRUE]]
    /\ UNCHANGED notHmFactVars

NextFacts ==
    \/ HmLoad(<<ItemMiler, ItemG9>>, <<FinancingG9>>)
    \/ \E m \in FactMessages : FactsCommand(m)
    \/ \E k \in 1..MaxFactTasks, m \in FactMessages : FactsLoad(k, m)
    \/ \E k \in 1..MaxFactTasks, r \in FactResponses : FactsHandle(k, r)
    \/ \E k \in 1..MaxFactTasks : FactsHandleRaises(k)

SpecFacts == Init /\ [][NextFacts]_vars

\* the facts a session keeps about its customer
FactNames == {"user_name", "last_interest", "last_appointment", "last_payment"}

\* turn k writes the session in this step
FactTurnWrites(k) == fact_turns.task[k].pc = "loaded" /\ fact_turns'.task[k].pc = "idle"

\* what the extractors of handle_message find in the turn k that writes in this step
\* (conversation_logic.py 1566-1577, 1661-1664); the interest is looked for only when
\* the LLM call gave a reply
FactsFound(k) ==
    [ user_name |-> ExtractNameFromText(fact_turns.task[k].user_message,
                                        fact_turns.task[k].context.last_bot_line),
      last_payment |-> ExtractPaymentFromText(fact_turns.task[k].user_message),
      last_appointment |-> ExtractAppointmentFromText(fact_turns.task[k].user_message),
      last_interest |-> IF fact_turns'.last.llm_ok
                        THEN ExtractInterestFromMessages(fact_turns.task[k].user_message,
                                                         fact_turns'.last.content, hm.items)
                        ELSE "" ]

\* the write of turn k keeps every stored fact that is not empty, and leaves alone
\* every stored fact whose extractor found nothing in the turn
FactsKeptBy(k) ==
    \A f \in FactNames :
        /\ hm.context[f] # "" => hm'.context[f] # ""
        /\ FactsFound(k)[f] = "" => hm'.context[f] = hm.context[f]

\* C39: a turn in which an extractor finds no match leaves the stored fact
\* (user_name, last_interest, last_appointment, last_payment) as it was, and a
\* stored fact that is not empty is not made empty again by any later turn of the
\* session.
C39_FactsKept ==
    [][\A k \in 1..MaxFactTasks : FactTurnWrites(k) => FactsKeptBy(k)]_vars

\* what does hold: a turn that writes over the very session it loaded (no other turn
\* wrote in between) keeps the facts as C39 says
FactsKeptBySerialTurns ==
    [][\A k \in 1..MaxFactTasks :
          FactTurnWrites(k) /\ fact_turns.task[k].context = hm.context => FactsKeptBy(k)]_vars

\* a serial turn without a match kept a name that was stored before it
FactsSerialKeptName ==
    /\ hm.turns >= 2
    /\ hm.context.user_name = "Juan"
    /\ fact_turns.last.user_message = "hola"
    /\ ~fact_turns.last.raised

\* a turn that loaded the session before the name was stored wrote it back without
\* the name
FactsNameLost ==
    /\ hm.turns >= 2
    /\ hm.context.user_name = ""
    /\ hm.last.user_message # "me llamo juan"
    /\ \E k \in 1..MaxFactTasks : fact_turns.task[k].pc = "idle"

====
